---- MODULE Spec2Model ----
(***************************************************************************)
(* FairShare: the proration engine of src/pages/GroupHomePage.tsx, the     *)
(* item utilities of src/lib/item-utils.ts, the item, member, join and     *)
(* register routes with their database helpers, the accept-invite route,   *)
(* and the local store of app-store.ts.                                    *)
(*                                                                         *)
(* Time is counted in ticks; ONE_DAY_MS ticks make one calendar day, so a  *)
(* timestamp t lies on day t \div ONE_DAY_MS at time-of-day                 *)
(* t % ONE_DAY_MS.  Stored dates (joined_at, leave_date, purchase_date)    *)
(* are calendar dates at midnight; the wall clock carries a time of day.   *)
(* The process runs in UTC, where every day has ONE_DAY_MS ticks.          *)
(* A JavaScript number is a reduced fraction <<n, d>> where every result   *)
(* is a number a double holds exactly, and a double, digit by digit, in    *)
(* the specification of getDepreciatedValueAtDate.                         *)
(***************************************************************************)
EXTENDS Integers, Sequences, FiniteSets, TLC

VARIABLES members, items, now, cards, store, call, users, user_tokens, requests,
          sqlite_sequence, uuids

vars == <<members, items, now, cards, store, call, users, user_tokens, requests,
         sqlite_sequence, uuids>>

(***************************************************************************)
(* Bounds of the model.                                                    *)
(***************************************************************************)
MaxDay == 2
MaxMembers == 2
MaxDepDays == 2
MaxPrice == 12
MaxItems == 2
MaxYears == 4
MaxRows == 1
MaxUsers == 3
MaxRequests == 2
MaxItemId == 2
MaxForms == 1
MaxInFlight == 1
MaxGroups == 2
MaxMemberRows == 2
MaxTokens == 1
MaxStoreRows == 2
MaxUuids == 3

(***************************************************************************)
(* Program constants and absent values.                                    *)
(***************************************************************************)
ONE_DAY_MS == 2

DAYS_PER_YEAR == 365

NoDate == -1

NotGiven == -2

NoBreakdown == [isNull |-> TRUE]

(***************************************************************************)
(* Numbers: exact fractions <<numerator, denominator>>, denominator > 0,   *)
(* in lowest terms.  A zero divisor gives a non-finite <<n, 0>>:           *)
(* <<1, 0>> is Infinity, <<-1, 0>> is -Infinity and <<0, 0>> is NaN.       *)
(* The code computes with doubles: a fraction stands for the double of     *)
(* the same value, which is the result of the code wherever every          *)
(* intermediate result is a number a double holds exactly (a whole number  *)
(* or a whole number of halves, quarters, ...) or is rounded to a whole    *)
(* number at once, as in Math.round(days / 365).  The prices, periods and  *)
(* head counts of the specifications that use fractions are chosen so;    *)
(* SpecDepreciation computes with the doubles themselves.                  *)
(***************************************************************************)
Abs(n) == IF n < 0 THEN -n ELSE n

RECURSIVE GCD(_, _)
GCD(a, b) == IF b = 0 THEN a ELSE GCD(b, a % b)

Rat(n, d) ==
    IF d = 0 THEN <<IF n > 0 THEN 1 ELSE IF n < 0 THEN -1 ELSE 0, 0>>
    ELSE LET g == GCD(Abs(n), d) IN <<n \div g, d \div g>>

Num(n) == <<n, 1>>

NaN == <<0, 0>>

\* a + b.  NaN propagates; an infinity absorbs a finite number; two
\* infinities of opposite sign give NaN.
RAdd(a, b) ==
    IF a[2] # 0 /\ b[2] # 0 THEN Rat(a[1] * b[2] + b[1] * a[2], a[2] * b[2])
    ELSE IF a = NaN \/ b = NaN THEN NaN
    ELSE IF a[2] # 0 THEN b
    ELSE IF b[2] # 0 THEN a
    ELSE IF a = b THEN a ELSE NaN

\* a - b is a + (-b).
RSub(a, b) == RAdd(a, <<-b[1], b[2]>>)

\* a * k for a whole number k; Infinity * 0 is NaN.
RMul(a, k) == Rat(a[1] * k, a[2])

\* a / k for a whole number k; x / 0 is an infinity of the sign of x and
\* 0 / 0 is NaN.
RDiv(a, k) ==
    IF k = 0 \/ a[2] = 0 THEN Rat(IF k < 0 THEN -a[1] ELSE a[1], 0)
    ELSE IF k < 0 THEN Rat(-a[1], a[2] * (-k))
    ELSE Rat(a[1], a[2] * k)

\* a <= b.  Every comparison with NaN is false.
RLeq(a, b) ==
    IF a[2] # 0 /\ b[2] # 0 THEN a[1] * b[2] <= b[1] * a[2]
    ELSE IF a = NaN \/ b = NaN THEN FALSE
    ELSE IF a[2] = 0 /\ b[2] = 0 THEN a[1] <= b[1]
    ELSE IF a[2] = 0 THEN a[1] < 0
    ELSE b[1] > 0

\* Math.round: the nearest whole number, a half going up; NaN and the
\* infinities come back unchanged.
MathRound(a) == IF a[2] = 0 THEN a ELSE Num((2 * a[1] + a[2]) \div (2 * a[2]))

\* Math.max: NaN if either argument is NaN.
MathMax(a, b) == IF a = NaN \/ b = NaN THEN NaN ELSE IF RLeq(a, b) THEN b ELSE a

IsInteger(a) == a[2] = 1

(***************************************************************************)
(* Doubles.  A positive double is [bits, exp]: bits is the significand, 53 *)
(* binary digits of which the first is 1, and the value is                 *)
(* bits * 2^(exp - 52); the double 0 has no digits.  The operations round  *)
(* to the nearest double, a tie to the even significand, as IEEE 754       *)
(* prescribes and JavaScript does.  Whole numbers of a few digits are      *)
(* doubles exactly.                                                        *)
(***************************************************************************)
SIGNIFICAND_BITS == 53

DZero == [bits |-> <<>>, exp |-> 0]

RECURSIVE Pow2(_)
Pow2(k) == IF k = 0 THEN 1 ELSE 2 * Pow2(k - 1)

\* The binary digits of a whole number n >= 1, the first being 1.
RECURSIVE BitsOfInt(_)
BitsOfInt(n) == IF n < 2 THEN <<n>> ELSE Append(BitsOfInt(n \div 2), n % 2)

\* The digits of the number one above; a carry out of the first digit
\* makes the sequence one digit longer.
RECURSIVE BitsPlusOne(_)
BitsPlusOne(bits) ==
    IF bits = <<>> THEN <<1>>
    ELSE IF bits[Len(bits)] = 0
         THEN [bits EXCEPT ![Len(bits)] = 1]
         ELSE Append(BitsPlusOne(SubSeq(bits, 1, Len(bits) - 1)), 0)

\* The double nearest to bits * 2^(exp - (Len(bits) - 1)) for a sequence of
\* at least 53 digits beginning with 1, of which the digits after the 53rd
\* are followed by something more (sticky) or by nothing.
RoundToDouble(bits, exp, sticky) ==
    LET kept == SubSeq(bits, 1, SIGNIFICAND_BITS)
        dropped == SubSeq(bits, SIGNIFICAND_BITS + 1, Len(bits))
        half == dropped # <<>> /\ dropped[1] = 1
        more == sticky \/ \E k \in 2 .. Len(dropped) : dropped[k] = 1
        up == half /\ (more \/ kept[SIGNIFICAND_BITS] = 1)
        raised == BitsPlusOne(kept)
    IN  IF ~up THEN [bits |-> kept, exp |-> exp]
        ELSE IF Len(raised) > SIGNIFICAND_BITS
             THEN [bits |-> SubSeq(raised, 1, SIGNIFICAND_BITS), exp |-> exp + 1]
             ELSE [bits |-> raised, exp |-> exp]

\* The long division num / den for den <= num < 2 * den: the digits of the
\* quotient so far, the remainder, and one digit more than a double holds.
RECURSIVE QuotientBits(_, _, _)
QuotientBits(bits, remainder, den) ==
    IF Len(bits) = SIGNIFICAND_BITS + 1 THEN [bits |-> bits, remainder |-> remainder]
    ELSE IF 2 * remainder >= den
         THEN QuotientBits(Append(bits, 1), 2 * remainder - den, den)
         ELSE QuotientBits(Append(bits, 0), 2 * remainder, den)

\* The exponent of n / d: the largest e with 2^e <= n / d.
RECURSIVE ExponentOfQuotient(_, _, _)
ExponentOfQuotient(n, d, e) ==
    IF n < d THEN ExponentOfQuotient(2 * n, d, e - 1)
    ELSE IF n >= 2 * d THEN ExponentOfQuotient(n, 2 * d, e + 1)
    ELSE e

\* n / d in doubles, for whole numbers n >= 0 and d >= 1.
DoubleOfQuotient(n, d) ==
    IF n = 0 THEN DZero
    ELSE LET e == ExponentOfQuotient(n, d, 0)
             num == IF e < 0 THEN n * Pow2(-e) ELSE n
             den == IF e > 0 THEN d * Pow2(e) ELSE d
             q == QuotientBits(<<1>>, num - den, den)
         IN  RoundToDouble(q.bits, e, q.remainder # 0)

DoubleOfInt(n) == DoubleOfQuotient(n, 1)

\* The digits of bits[1 .. i] * k + carry, the carry being what the digits
\* to the right of the i-th have passed on.
RECURSIVE BitsTimesInt(_, _, _, _)
BitsTimesInt(bits, k, i, carry) ==
    IF i = 0 THEN IF carry = 0 THEN <<>> ELSE BitsOfInt(carry)
    ELSE LET t == bits[i] * k + carry
         IN  IF t % 2 = 1
             THEN Append(BitsTimesInt(bits, k, i - 1, t \div 2), 1)
             ELSE Append(BitsTimesInt(bits, k, i - 1, t \div 2), 0)

\* x * k in doubles, for a double x >= 0 and a whole number k >= 0.
DoubleTimesInt(x, k) ==
    IF x = DZero \/ k = 0 THEN DZero
    ELSE LET product == BitsTimesInt(x.bits, k, SIGNIFICAND_BITS, 0)
         IN  RoundToDouble(product, x.exp + (Len(product) - SIGNIFICAND_BITS), FALSE)

\* x <= y for doubles x, y >= 0: by the exponent, then digit by digit.
RECURSIVE BitsLeq(_, _, _)
BitsLeq(a, b, k) ==
    IF k > Len(a) THEN TRUE
    ELSE IF a[k] # b[k] THEN a[k] < b[k]
    ELSE BitsLeq(a, b, k + 1)

DoubleLeq(x, y) ==
    IF x = DZero THEN TRUE
    ELSE IF y = DZero THEN FALSE
    ELSE IF x.exp # y.exp THEN x.exp < y.exp
    ELSE BitsLeq(x.bits, y.bits, 1)

(***************************************************************************)
(* Dates.                                                                  *)
(***************************************************************************)
Day(d) == d * ONE_DAY_MS

normalizeDate(d) == d - (d % ONE_DAY_MS)

Max(a, b) == IF a >= b THEN a ELSE b

(***************************************************************************)
(* Depreciation model.                                                     *)
(***************************************************************************)
\* Math.round is the identity on the whole numbers of days and years kept
\* here; NoDate stands for a missing (null or undefined) field.
getDepreciationDays(item) ==
    Max(1, IF item.depreciation_days # NoDate
           THEN item.depreciation_days
           ELSE IF item.depreciation_years # NoDate /\ item.depreciation_years # 0
                THEN item.depreciation_years * 365
                ELSE 365)

\* getDepreciationEndDate with the window one day too long
\* (depreciationDays added instead of depreciationDays - 1).
getDepreciationEndDate_OneDayLong(item) ==
    item.purchase_date + Day(getDepreciationDays(item))

getDepreciationEndDate(item) ==
    item.purchase_date + Day(getDepreciationDays(item) - 1)

getDepreciatedValueAtDate(item, atDate) ==
    LET purchaseDate == normalizeDate(item.purchase_date)
        checkDate == normalizeDate(atDate)
        depreciationDays == getDepreciationDays(item)
        daysElapsed == (checkDate - purchaseDate) \div ONE_DAY_MS
        remainingDays == depreciationDays - daysElapsed
    IN  IF checkDate < purchaseDate THEN Num(item.price)
        ELSE IF daysElapsed >= depreciationDays THEN Num(0)
        ELSE RMul(RDiv(Num(item.price), depreciationDays), remainingDays)

\* getDepreciatedValueAtDate with its numbers as the doubles the code
\* computes with: (item.price / depreciationDays) * remainingDays, each
\* operation rounded.
getDepreciatedValueAtDateDouble(item, atDate) ==
    LET purchaseDate == normalizeDate(item.purchase_date)
        checkDate == normalizeDate(atDate)
        depreciationDays == getDepreciationDays(item)
        daysElapsed == (checkDate - purchaseDate) \div ONE_DAY_MS
        remainingDays == depreciationDays - daysElapsed
    IN  IF checkDate < purchaseDate THEN DoubleOfInt(item.price)
        ELSE IF daysElapsed >= depreciationDays THEN DZero
        ELSE DoubleTimesInt(DoubleOfQuotient(item.price, depreciationDays), remainingDays)

(***************************************************************************)
(* Presence model.                                                         *)
(***************************************************************************)
isMemberPresentOnDay(member, day) ==
    LET joinDate == normalizeDate(member.joined_at)
        checkDay == normalizeDate(day)
    IN  IF joinDate > checkDay THEN FALSE
        ELSE IF member.leave_date # NoDate
                /\ normalizeDate(member.leave_date) < checkDay THEN FALSE
        ELSE TRUE

getMembersPresentOnDay(allMembers, day) ==
    SelectSeq(allMembers, LAMBDA m : isMemberPresentOnDay(m, day))

(***************************************************************************)
(* Allocation algorithm.                                                   *)
(***************************************************************************)
\* calculateBuyInForItem with the joiner left out of the denominator.
calculateBuyInForItem_JoinerNotCounted(member, item, allMembers) ==
    LET purchaseDate == normalizeDate(item.purchase_date)
        memberJoinDate == normalizeDate(member.joined_at)
        valueAtJoin == getDepreciatedValueAtDate(item, memberJoinDate)
        membersAtJoin ==
            SelectSeq(getMembersPresentOnDay(allMembers, memberJoinDate),
                      LAMBDA m : m.id # member.id)
    IN  IF memberJoinDate <= purchaseDate THEN Num(0)
        ELSE IF RLeq(valueAtJoin, Num(0)) THEN Num(0)
        ELSE IF Len(membersAtJoin) = 0 THEN Num(0)
        ELSE RDiv(valueAtJoin, Len(membersAtJoin))

\* calculateBuyInForItem without the early return for an empty
\* membersAtJoin list.
calculateBuyInForItem_NoEmptyGuard(member, item, allMembers) ==
    LET purchaseDate == normalizeDate(item.purchase_date)
        memberJoinDate == normalizeDate(member.joined_at)
        valueAtJoin == getDepreciatedValueAtDate(item, memberJoinDate)
        membersAtJoin == getMembersPresentOnDay(allMembers, memberJoinDate)
    IN  IF memberJoinDate <= purchaseDate THEN Num(0)
        ELSE IF RLeq(valueAtJoin, Num(0)) THEN Num(0)
        ELSE RDiv(valueAtJoin, Len(membersAtJoin))

calculateBuyInForItem(member, item, allMembers) ==
    LET purchaseDate == normalizeDate(item.purchase_date)
        memberJoinDate == normalizeDate(member.joined_at)
        valueAtJoin == getDepreciatedValueAtDate(item, memberJoinDate)
        membersAtJoin == getMembersPresentOnDay(allMembers, memberJoinDate)
    IN  IF memberJoinDate <= purchaseDate THEN Num(0)
        ELSE IF RLeq(valueAtJoin, Num(0)) THEN Num(0)
        ELSE IF Len(membersAtJoin) = 0 THEN Num(0)
        ELSE RDiv(valueAtJoin, Len(membersAtJoin))

\* The while loop of calculateUsageForItem: one iteration per day.
RECURSIVE usageLoop(_, _, _, _, _)
usageLoop(cursor, last, perDayValue, allMembers, total) ==
    IF cursor > last THEN total
    ELSE LET presentMembers == getMembersPresentOnDay(allMembers, cursor)
         IN  usageLoop(cursor + ONE_DAY_MS, last, perDayValue, allMembers,
                       IF Len(presentMembers) > 0
                       THEN RAdd(total, RDiv(perDayValue, Len(presentMembers)))
                       ELSE total)

\* calculateUsageForItem without the cap at today: the loop runs to the
\* window end or the leave date even when these lie in the future.
calculateUsageForItem_NotCappedAtToday(member, item, allMembers, endDate, clock) ==
    LET purchaseDate == normalizeDate(item.purchase_date)
        memberJoinDate == normalizeDate(member.joined_at)
        depreciationEnd == normalizeDate(getDepreciationEndDate(item))
        depreciationDays == getDepreciationDays(item)
        perDayValue == RDiv(Num(item.price), depreciationDays)
        startDate == IF memberJoinDate > purchaseDate THEN memberJoinDate ELSE purchaseDate
        end0 == depreciationEnd
        end1 == IF member.leave_date # NoDate /\ normalizeDate(member.leave_date) < end0
                THEN normalizeDate(member.leave_date) ELSE end0
        calcEndDate == IF endDate # NoDate /\ normalizeDate(endDate) < end1
                       THEN normalizeDate(endDate) ELSE end1
        last == IF calcEndDate < depreciationEnd THEN calcEndDate ELSE depreciationEnd
    IN  IF startDate > calcEndDate THEN Num(0)
        ELSE IF startDate > depreciationEnd THEN Num(0)
        ELSE usageLoop(startDate, last, perDayValue, allMembers, Num(0))

\* clock is the value of `new Date()` read inside the function;
\* endDate is NoDate when the optional argument is not passed.
calculateUsageForItem(member, item, allMembers, endDate, clock) ==
    LET purchaseDate == normalizeDate(item.purchase_date)
        memberJoinDate == normalizeDate(member.joined_at)
        depreciationEnd == normalizeDate(getDepreciationEndDate(item))
        depreciationDays == getDepreciationDays(item)
        perDayValue == RDiv(Num(item.price), depreciationDays)
        startDate == IF memberJoinDate > purchaseDate THEN memberJoinDate ELSE purchaseDate
        today == normalizeDate(clock)
        end0 == IF depreciationEnd < today THEN depreciationEnd ELSE today
        end1 == IF member.leave_date # NoDate /\ normalizeDate(member.leave_date) < end0
                THEN normalizeDate(member.leave_date) ELSE end0
        calcEndDate == IF endDate # NoDate /\ normalizeDate(endDate) < end1
                       THEN normalizeDate(endDate) ELSE end1
        last == IF calcEndDate < depreciationEnd THEN calcEndDate ELSE depreciationEnd
    IN  IF startDate > calcEndDate THEN Num(0)
        ELSE IF startDate > depreciationEnd THEN Num(0)
        ELSE usageLoop(startDate, last, perDayValue, allMembers, Num(0))

\* calculateInitialPaymentForItem taking only members who joined strictly
\* before the purchase date for original purchasers.
calculateInitialPaymentForItem_JoinedStrictlyBefore(member, item, allMembers) ==
    LET purchaseDate == normalizeDate(item.purchase_date)
        memberJoinDate == normalizeDate(member.joined_at)
        membersAtPurchase ==
            SelectSeq(allMembers, LAMBDA m : normalizeDate(m.joined_at) < purchaseDate)
    IN  IF memberJoinDate < purchaseDate
        THEN RDiv(Num(item.price), Len(membersAtPurchase))
        ELSE calculateBuyInForItem(member, item, allMembers)

\* calculateInitialPaymentForItem splitting the price among the members
\* still present on the purchase date.
calculateInitialPaymentForItem_PresentAtPurchase(member, item, allMembers) ==
    LET purchaseDate == normalizeDate(item.purchase_date)
        memberJoinDate == normalizeDate(member.joined_at)
        membersAtPurchase == getMembersPresentOnDay(allMembers, purchaseDate)
    IN  IF memberJoinDate <= purchaseDate
        THEN RDiv(Num(item.price), Len(membersAtPurchase))
        ELSE calculateBuyInForItem(member, item, allMembers)

calculateInitialPaymentForItem(member, item, allMembers) ==
    LET purchaseDate == normalizeDate(item.purchase_date)
        memberJoinDate == normalizeDate(member.joined_at)
        membersAtPurchase ==
            SelectSeq(allMembers, LAMBDA m : normalizeDate(m.joined_at) <= purchaseDate)
    IN  IF memberJoinDate <= purchaseDate
        THEN RDiv(Num(item.price), Len(membersAtPurchase))
        ELSE calculateBuyInForItem(member, item, allMembers)

\* One pass of the second allMembers.forEach of calculateMemberBalanceForItem:
\* the amount laterMember's joining adds to member's buyInReceived.
buyInReceivedFrom(member, laterMember, item, allMembers) ==
    LET purchaseDate == normalizeDate(item.purchase_date)
        depreciationEnd == getDepreciationEndDate(item)
        laterJoinDate == normalizeDate(laterMember.joined_at)
        valueAtLaterJoin == getDepreciatedValueAtDate(item, laterJoinDate)
        allMembersAtThatTime == getMembersPresentOnDay(allMembers, laterJoinDate)
        existingMembersAtThatTime ==
            SelectSeq(allMembersAtThatTime,
                      LAMBDA m : normalizeDate(m.joined_at) < laterJoinDate)
        newMemberShare == RDiv(valueAtLaterJoin, Len(allMembersAtThatTime))
    IN  IF laterMember.id = member.id THEN Num(0)
        ELSE IF ~(laterJoinDate > purchaseDate /\ laterJoinDate <= depreciationEnd)
             THEN Num(0)
        ELSE IF ~isMemberPresentOnDay(member, laterJoinDate) THEN Num(0)
        ELSE IF Len(existingMembersAtThatTime) > 0
             THEN RDiv(newMemberShare, Len(existingMembersAtThatTime))
             ELSE Num(0)

RECURSIVE buyInReceivedLoop(_, _, _, _, _)
buyInReceivedLoop(member, item, allMembers, k, acc) ==
    IF k > Len(allMembers) THEN acc
    ELSE buyInReceivedLoop(member, item, allMembers, k + 1,
                           RAdd(acc, buyInReceivedFrom(member, allMembers[k], item, allMembers)))

\* The first computation of buyInReceived (lines 231-256) is overwritten by
\* the reset at line 261 and leaves no trace in the result.
calculateMemberBalanceForItem(member, item, allMembers, clock) ==
    LET purchaseDate == normalizeDate(item.purchase_date)
        memberJoinDate == normalizeDate(member.joined_at)
        isOriginalPurchaser == memberJoinDate <= purchaseDate
        initialPayment == calculateInitialPaymentForItem(member, item, allMembers)
        usage == calculateUsageForItem(member, item, allMembers, NoDate, clock)
        buyInPaid == IF isOriginalPurchaser THEN Num(0)
                     ELSE calculateBuyInForItem(member, item, allMembers)
        buyInReceived == buyInReceivedLoop(member, item, allMembers, 1, Num(0))
        netBalance == RSub(RAdd(RSub(initialPayment, usage), buyInReceived), buyInPaid)
    IN  [memberId |-> member.id,
         initialPayment |-> initialPayment,
         usage |-> usage,
         buyInPaid |-> buyInPaid,
         buyInReceived |-> buyInReceived,
         netBalance |-> netBalance]

\* calculateItemBreakdown excluding only members who left strictly before
\* the purchase date.
calculateItemBreakdown_LeftStrictlyBefore(member, item, allMembers, clock) ==
    LET purchaseDate == normalizeDate(item.purchase_date)
        memberJoinDate == normalizeDate(member.joined_at)
        depreciationEnd == normalizeDate(getDepreciationEndDate(item))
        isLateJoiner == memberJoinDate > purchaseDate
        balance == calculateMemberBalanceForItem(member, item, allMembers, clock)
    IN  IF member.leave_date # NoDate /\ normalizeDate(member.leave_date) < purchaseDate
        THEN NoBreakdown
        ELSE IF memberJoinDate > depreciationEnd THEN NoBreakdown
        ELSE [isNull |-> FALSE,
              item |-> item.id,
              initialPayment |-> balance.initialPayment,
              usage |-> balance.usage,
              buyInPaid |-> balance.buyInPaid,
              buyInReceived |-> balance.buyInReceived,
              refundable |-> balance.netBalance,
              isLateJoiner |-> isLateJoiner]

calculateItemBreakdown(member, item, allMembers, clock) ==
    LET purchaseDate == normalizeDate(item.purchase_date)
        memberJoinDate == normalizeDate(member.joined_at)
        depreciationEnd == normalizeDate(getDepreciationEndDate(item))
        isLateJoiner == memberJoinDate > purchaseDate
        balance == calculateMemberBalanceForItem(member, item, allMembers, clock)
    IN  IF member.leave_date # NoDate /\ normalizeDate(member.leave_date) <= purchaseDate
        THEN NoBreakdown
        ELSE IF memberJoinDate > depreciationEnd THEN NoBreakdown
        ELSE [isNull |-> FALSE,
              item |-> item.id,
              initialPayment |-> balance.initialPayment,
              usage |-> balance.usage,
              buyInPaid |-> balance.buyInPaid,
              buyInReceived |-> balance.buyInReceived,
              refundable |-> balance.netBalance,
              isLateJoiner |-> isLateJoiner]

\* The for loop of calculateMemberTotals.  clocks[k] is the value of
\* `new Date()` read by the call of calculateUsageForItem made for item k.
RECURSIVE totalsLoop(_, _, _, _, _, _)
totalsLoop(member, its, allMembers, clocks, k, totals) ==
    IF k > Len(its) THEN totals
    ELSE LET breakdown == calculateItemBreakdown(member, its[k], allMembers, clocks[k])
         IN  totalsLoop(member, its, allMembers, clocks, k + 1,
                 IF breakdown.isNull THEN totals
                 ELSE [totalInitialPayment |-> RAdd(totals.totalInitialPayment, breakdown.initialPayment),
                       totalUsage |-> RAdd(totals.totalUsage, breakdown.usage),
                       totalBuyInPaid |-> RAdd(totals.totalBuyInPaid, breakdown.buyInPaid),
                       totalBuyInReceived |-> RAdd(totals.totalBuyInReceived, breakdown.buyInReceived),
                       totalRefundable |-> RAdd(totals.totalRefundable, breakdown.refundable)])

\* calculateMemberTotals with the loop starting at the second item.
calculateMemberTotals_SkipsFirstItem(member, its, allMembers, clock) ==
    totalsLoop(member, its, allMembers, [k \in 1 .. Len(its) |-> clock], 2,
               [totalInitialPayment |-> Num(0),
                totalUsage |-> Num(0),
                totalBuyInPaid |-> Num(0),
                totalBuyInReceived |-> Num(0),
                totalRefundable |-> Num(0)])

\* calculateMemberTotals when the successive readings of the clock are
\* clocks[1], clocks[2], ...
calculateMemberTotalsReading(member, its, allMembers, clocks) ==
    totalsLoop(member, its, allMembers, clocks, 1,
               [totalInitialPayment |-> Num(0),
                totalUsage |-> Num(0),
                totalBuyInPaid |-> Num(0),
                totalBuyInReceived |-> Num(0),
                totalRefundable |-> Num(0)])

\* calculateMemberTotals when every reading of the clock gives the same
\* value.
calculateMemberTotals(member, its, allMembers, clock) ==
    calculateMemberTotalsReading(member, its, allMembers, [k \in 1 .. Len(its) |-> clock])

calculateTotalRefundForMember(member, its, allMembers, clock) ==
    calculateMemberTotals(member, its, allMembers, clock).totalRefundable

(***************************************************************************)
(* Snapshots the page can hold.  The rows of group_members of one group    *)
(* are numbered in insertion order: createGroup inserts the owner's row,   *)
(* joinGroup every later one with the default role 'member', each for a    *)
(* different user (UNIQUE(group_id, user_id)).  The page receives them as  *)
(* getGroupMembers returns them, ORDER BY gm.role, gm.joined_at: 'member'  *)
(* sorts before 'owner'.  The query names no third key; SQLite reads the   *)
(* rows of the group through the index on (group_id, user_id), so rows     *)
(* that agree on both keys come in the order of their users, whichever     *)
(* was inserted first.  A leave date is never before the join date.  The   *)
(* purchase date is the time origin, day 1, with day 0 before it.          *)
(***************************************************************************)
Days == 0 .. MaxDay

MemberDates ==
    UNION {{<<Day(j), l>> : l \in {NoDate} \cup {Day(d) : d \in j .. MaxDay}} : j \in Days}

\* The users of k rows, row by row: k different users.
UsersOfRows(k) == {u \in [1 .. k -> 1 .. k] : \A i, j \in 1 .. k : i # j => u[i] # u[j]}

\* The rows of one group: row 1 is the owner's.
MemberRows(n) ==
    UNION {{[i \in 1 .. k |->
                [id |-> i, user_id |-> u[i], role |-> IF i = 1 THEN "owner" ELSE "member",
                 joined_at |-> s[i][1], leave_date |-> s[i][2]]] :
                s \in [1 .. k -> MemberDates], u \in UsersOfRows(k)} : k \in 1 .. n}

\* The text order of the roles: 'admin' < 'member' < 'owner'.
RoleRank(role) == IF role = "admin" THEN 0 ELSE IF role = "member" THEN 1 ELSE 2

\* Row a comes before row b in the result of the members query.
ComesBefore(a, b) ==
    \/ RoleRank(a.role) < RoleRank(b.role)
    \/ /\ a.role = b.role
       /\ \/ a.joined_at < b.joined_at
          \/ a.joined_at = b.joined_at /\ a.user_id < b.user_id

OrderByRoleJoinedAt(rows) ==
    [p \in 1 .. Len(rows) |->
        rows[CHOOSE i \in 1 .. Len(rows) :
                Cardinality({j \in 1 .. Len(rows) : ComesBefore(rows[j], rows[i])}) = p - 1]]

\* The columns of a row the calculations of the page read.
MemberColumns(row) ==
    [id |-> row.id, role |-> row.role, joined_at |-> row.joined_at,
     leave_date |-> row.leave_date]

MemberLists(n) ==
    {[p \in 1 .. Len(rows) |-> MemberColumns(OrderByRoleJoinedAt(rows)[p])] :
        rows \in MemberRows(n)}

\* The groups nobody has left.
StayingMemberLists(n) ==
    {ms \in MemberLists(n) : \A i \in 1 .. Len(ms) : ms[i].leave_date = NoDate}

\* The depreciation_years createItem stores beside a period given in days:
\* Math.round(depreciationDays / 365).
yearsOfDays(depreciationDays) == MathRound(Rat(depreciationDays, DAYS_PER_YEAR))[1]

ItemLists ==
    {<<[id |-> 1, price |-> MaxPrice, purchase_date |-> Day(1),
        depreciation_days |-> n, depreciation_years |-> yearsOfDays(n)]>> : n \in 1 .. MaxDepDays}

Clock == 0 .. (Day(MaxDay) + ONE_DAY_MS - 1)

\* One instant of every day, after midnight: normalizeDate changes it.
Daytime == {c \in Clock : normalizeDate(c) # c}

NotRendered == <<>>

\* The local store before any action, and no library call made yet.
EmptyStore == [members |-> <<>>, items |-> <<>>]

NoCall == [fn |-> "none"]

\* sqlite_sequence, the table in which SQLite keeps the largest id an
\* AUTOINCREMENT table has ever given out: here after the rows were
\* inserted and none deleted.
SequenceAfter(its) ==
    [shared_items |-> IF its = <<>> THEN 0
                      ELSE CHOOSE m \in {its[k].id : k \in 1 .. Len(its)} :
                               \A k \in 1 .. Len(its) : its[k].id <= m]

Init ==
    /\ members \in MemberLists(MaxMembers)
    /\ items \in ItemLists
    /\ now \in Daytime
    /\ cards = NotRendered
    /\ users = <<>>
    /\ user_tokens = <<>>
    /\ requests = <<>>
    /\ store = EmptyStore
    /\ call = NoCall
    /\ sqlite_sequence = SequenceAfter(items)
    /\ uuids = 0

\* A group with one member more, which nobody has left, at any instant.
InitLarge ==
    /\ members \in StayingMemberLists(MaxMembers + 1)
    /\ items \in ItemLists
    /\ now \in Clock
    /\ cards = NotRendered
    /\ users = <<>>
    /\ user_tokens = <<>>
    /\ requests = <<>>
    /\ store = EmptyStore
    /\ call = NoCall
    /\ sqlite_sequence = SequenceAfter(items)
    /\ uuids = 0

\* The page maps every member to a MemberSummaryCard; the card computes the
\* member's totals and then the breakdown of each item.  Every one of these
\* computations reads the clock for itself; here all the readings of a
\* render give the same value.
Render ==
    /\ cards' = [i \in 1 .. Len(members) |->
                    [totals |-> calculateMemberTotals(members[i], items, members, now),
                     breakdowns |-> [k \in 1 .. Len(items) |->
                         calculateItemBreakdown(members[i], items[k], members, now)]]]
    /\ UNCHANGED <<members, items, now, store, call, users, user_tokens, requests,
                   sqlite_sequence, uuids>>

\* The wall clock advances.
Tick ==
    /\ now + 1 \in Clock
    /\ now' = now + 1
    /\ UNCHANGED <<members, items, cards, store, call, users, user_tokens, requests,
                   sqlite_sequence, uuids>>

\* The number, within one render, of the reading of the clock made for
\* member i and item k: the card of member i first computes the totals
\* (phase 0), then the breakdowns (phase 1).
ReadNo(i, phase, k) == (i - 1) * 2 * Len(items) + phase * Len(items) + k

\* The number of readings of the clock in one render.
Readings == 2 * Len(members) * Len(items)

\* The reading numbered r of a render that starts at the instant clock:
\* the readings numbered below cut give that instant, the others the next.
ReadAt(r, cut, clock) == IF r < cut THEN clock ELSE clock + 1

\* A render while the clock runs: the clock advances before the reading
\* numbered cut, or not at all during the render (cut = Readings + 1).
RenderWhileClockRuns ==
    \E cut \in 2 .. (Readings + 1) :
        /\ cut <= Readings => now + 1 \in Clock
        /\ cards' = [i \in 1 .. Len(members) |->
              [totals |-> calculateMemberTotalsReading(members[i], items, members,
                              [k \in 1 .. Len(items) |-> ReadAt(ReadNo(i, 0, k), cut, now)]),
               breakdowns |-> [k \in 1 .. Len(items) |->
                   calculateItemBreakdown(members[i], items[k], members,
                                          ReadAt(ReadNo(i, 1, k), cut, now))]]]
        /\ now' = IF cut <= Readings THEN now + 1 ELSE now
        /\ UNCHANGED <<members, items, store, call, users, user_tokens, requests,
                       sqlite_sequence, uuids>>

Next == Render

Spec == Init /\ [][Next]_vars

\* The same page over the same snapshots, for the properties that put every
\* leave date, also one before the join date, on every member in turn.
SpecAnyLeaveDate == Init /\ [][Next]_vars

\* The same page over the same snapshots, for the properties of the
\* divisors: every member's quotients, for every leave date of every other.
SpecQuotients == Init /\ [][Next]_vars

\* The same page over the same snapshots, for the properties of the shares
\* paid at the purchase and at a later joining.
SpecShares == Init /\ [][Next]_vars

NextClock == RenderWhileClockRuns \/ Tick

SpecClock == InitLarge /\ [][NextClock]_vars

(***************************************************************************)
(* A group with several items: from none to MaxItems items bought on the   *)
(* same day, each with the shortest depreciation period, one day, or the   *)
(* longest, in a group nobody has left.  The rows of shared_items are      *)
(* numbered in insertion order and created at different times;             *)
(* getGroupItems returns them ORDER BY si.created_at DESC, the newest row   *)
(* first.                                                                  *)
(***************************************************************************)
ItemSeqs(n) ==
    {[k \in 1 .. Len(s) |->
        [id |-> Len(s) + 1 - k, price |-> MaxPrice, purchase_date |-> Day(1),
         depreciation_days |-> s[k], depreciation_years |-> yearsOfDays(s[k])]] :
        s \in UNION {[1 .. len -> {1, MaxDepDays}] : len \in 0 .. n}}

InitTotals ==
    /\ members \in StayingMemberLists(MaxMembers)
    /\ items \in ItemSeqs(MaxItems)
    /\ now \in Daytime
    /\ cards = NotRendered
    /\ users = <<>>
    /\ user_tokens = <<>>
    /\ requests = <<>>
    /\ store = EmptyStore
    /\ call = NoCall
    /\ sqlite_sequence = SequenceAfter(items)
    /\ uuids = 0

SpecTotals == InitTotals /\ [][Next]_vars

(***************************************************************************)
(* src/lib/item-utils.ts: the unit conversions.  A call is recorded as     *)
(* [fn, arg, ret]; the next call is made on the value the last one         *)
(* returned, as the form's unit buttons do with the period value.          *)
(***************************************************************************)
convertDaysToYears(days) == MathMax(Num(1), MathRound(RDiv(days, DAYS_PER_YEAR)))

\* convertYearsToDays without the floor of 1.
convertYearsToDays_NoMinimum(years) == MathRound(RMul(years, DAYS_PER_YEAR))

convertYearsToDays(years) == MathMax(Num(1), MathRound(RMul(years, DAYS_PER_YEAR)))

\* Numbers a caller may pass: whole numbers and quarters, negative and zero
\* included.
ConvertInputs == {Rat(n, 4) : n \in (-4 * MaxYears) .. (4 * MaxYears)}

InitConvert ==
    /\ members = <<>>
    /\ items = <<>>
    /\ now = 0
    /\ cards = NotRendered
    /\ users = <<>>
    /\ user_tokens = <<>>
    /\ requests = <<>>
    /\ store = EmptyStore
    /\ \E x \in ConvertInputs : call = [fn |-> "input", arg |-> x, ret |-> x]
    /\ sqlite_sequence = SequenceAfter(items)
    /\ uuids = 0

CallConvertYearsToDays ==
    /\ call.fn # "none"
    /\ RLeq(call.ret, Num(MaxYears))
    /\ call' = [fn |-> "convertYearsToDays", arg |-> call.ret,
                ret |-> convertYearsToDays(call.ret)]
    /\ UNCHANGED <<members, items, now, cards, store, users, user_tokens, requests,
                   sqlite_sequence, uuids>>

CallConvertDaysToYears ==
    /\ call.fn # "none"
    /\ call' = [fn |-> "convertDaysToYears", arg |-> call.ret,
                ret |-> convertDaysToYears(call.ret)]
    /\ UNCHANGED <<members, items, now, cards, store, users, user_tokens, requests,
                   sqlite_sequence, uuids>>

NextConvert == CallConvertYearsToDays \/ CallConvertDaysToYears

SpecConvert == InitConvert /\ [][NextConvert]_vars

(***************************************************************************)
(* getDepreciatedValueAtDate in doubles, called for one item of any whole  *)
(* price up to MaxPrice and a period of a few days or of one year, on      *)
(* dates from the day before the purchase to the day after the window.     *)
(***************************************************************************)
DepreciationPeriods == (1 .. MaxDepDays) \cup {DAYS_PER_YEAR}

InitDepreciation ==
    /\ members = <<>>
    /\ \E price \in 1 .. MaxPrice : \E n \in DepreciationPeriods :
           items = <<[id |-> 1, price |-> price, purchase_date |-> Day(1),
                      depreciation_days |-> n, depreciation_years |-> yearsOfDays(n)]>>
    /\ now = 0
    /\ cards = NotRendered
    /\ users = <<>>
    /\ user_tokens = <<>>
    /\ requests = <<>>
    /\ store = EmptyStore
    /\ call = NoCall
    /\ sqlite_sequence = SequenceAfter(items)
    /\ uuids = 0

\* Every instant of the day before the purchase, of the purchase day and of
\* the day after it, and midnight of the window's last day and of the two
\* days after it.
DepreciationDates(item) ==
    (0 .. (Day(3) - 1))
        \cup {item.purchase_date + Day(item.depreciation_days + d) : d \in (-1) .. 1}

CallGetDepreciatedValueAtDate ==
    /\ \E atDate \in DepreciationDates(items[1]) :
           call' = [fn |-> "getDepreciatedValueAtDate", arg |-> atDate,
                    ret |-> getDepreciatedValueAtDateDouble(items[1], atDate)]
    /\ UNCHANGED <<members, items, now, cards, store, users, user_tokens, requests,
                   sqlite_sequence, uuids>>

NextDepreciation == CallGetDepreciatedValueAtDate

SpecDepreciation == InitDepreciation /\ [][NextDepreciation]_vars

(***************************************************************************)
(* JSON values of a request body: undefined (key absent), null, a number   *)
(* or a string.  Every value carries the three fields so that any two can  *)
(* be compared.                                                            *)
(***************************************************************************)
JsUndefined == [t |-> "undefined", n |-> Num(0), s |-> ""]

JsNull == [t |-> "null", n |-> Num(0), s |-> ""]

JsNum(a) == [t |-> "number", n |-> a, s |-> ""]

JsStr(x) == [t |-> "string", n |-> Num(0), s |-> x]

\* The date string of calendar day d ('YYYY-MM-DD'); n holds its timestamp.
JsDate(d) == [t |-> "string", n |-> Num(Day(d)), s |-> "date"]

Nullish(v) == v.t \in {"undefined", "null"}

\* a ?? b
Coalesce(a, b) == IF Nullish(a) THEN b ELSE a

\* Falsy values of the kinds above: undefined, null, 0 and "".
Truthy(v) ==
    \/ v.t = "number" /\ v.n[1] # 0
    \/ v.t = "string" /\ v.s # ""

(***************************************************************************)
(* src/lib/item-utils.ts: normalizeIncomingItemPayload.  A body that is    *)
(* itself null or undefined reads as a body with every key absent (raw?.). *)
(***************************************************************************)
\* normalizeIncomingItemPayload preferring the legacy key depreciationDays
\* to period_days and periodType to period_type.
normalizeIncomingItemPayload_LegacyFirst(raw) ==
    [name |-> raw.name,
     price |-> raw.price,
     purchaseDate |-> raw.purchaseDate,
     depreciationDays |->
        Coalesce(raw.depreciationDays, Coalesce(raw.period_days, raw.depreciation_days)),
     periodType |->
        Coalesce(raw.periodType,
                 Coalesce(raw.period_type,
                          Coalesce(raw.depreciation_period_type, JsStr("days"))))]

normalizeIncomingItemPayload(raw) ==
    [name |-> raw.name,
     price |-> raw.price,
     purchaseDate |-> raw.purchaseDate,
     depreciationDays |->
        Coalesce(raw.period_days, Coalesce(raw.depreciationDays, raw.depreciation_days)),
     periodType |->
        Coalesce(raw.period_type,
                 Coalesce(raw.periodType,
                          Coalesce(raw.depreciation_period_type, JsStr("days"))))]

\* Request bodies: each period key absent, null or a number of its own, the
\* canonical one also 0; each type key absent, null or a string.
Absent == {JsUndefined, JsNull}

PeriodTypeValues == {JsStr("days"), JsStr("years")}

Payloads ==
    [name : {JsUndefined, JsStr("Fridge")},
     price : {JsNum(Num(MaxPrice))},
     purchaseDate : {JsDate(1)},
     period_days : Absent \cup {JsNum(Num(v)) : v \in 0 .. MaxDepDays},
     depreciationDays : Absent \cup {JsNum(Num(MaxDepDays + 1))},
     depreciation_days : Absent \cup {JsNum(Num(MaxDepDays + 2))},
     period_type : Absent \cup PeriodTypeValues \cup {JsStr("")},
     periodType : Absent \cup PeriodTypeValues,
     depreciation_period_type : Absent \cup PeriodTypeValues]

InitNormalize ==
    /\ members = <<>>
    /\ items = <<>>
    /\ now = 0
    /\ cards = NotRendered
    /\ users = <<>>
    /\ user_tokens = <<>>
    /\ requests = <<>>
    /\ store = EmptyStore
    /\ \E raw \in Payloads : call = [fn |-> "input", arg |-> raw, ret |-> raw]
    /\ sqlite_sequence = SequenceAfter(items)
    /\ uuids = 0

CallNormalize ==
    /\ call.fn = "input"
    /\ call' = [fn |-> "normalizeIncomingItemPayload", arg |-> call.arg,
                ret |-> normalizeIncomingItemPayload(call.arg)]
    /\ UNCHANGED <<members, items, now, cards, store, users, user_tokens, requests,
                   sqlite_sequence, uuids>>

NextNormalize == CallNormalize

SpecNormalize == InitNormalize /\ [][NextNormalize]_vars

(***************************************************************************)
(* src/lib/item-utils.ts: inferEditFormPeriod.  An item that is itself     *)
(* null or undefined reads as an item with every key absent                *)
(* (existingItem?.).                                                       *)
(***************************************************************************)
\* typeof v === 'number' && !isNaN(v)
IsNumeric(v) == v.t = "number" /\ v.n # NaN

\* inferEditFormPeriod choosing 'years' whenever a years value exists, a
\* days value or not.
inferEditFormPeriod_IgnoresDays(existingItem) ==
    LET explicitType == Coalesce(existingItem.period_type,
                                 existingItem.depreciation_period_type)
        daysValue == Coalesce(existingItem.period_days, existingItem.depreciation_days)
        yearsValue == existingItem.depreciation_years
        hasDays == IsNumeric(daysValue)
        hasYears == IsNumeric(yearsValue)
        periodType ==
            IF explicitType = JsStr("years") \/ (~Truthy(explicitType) /\ hasYears)
            THEN "years" ELSE "days"
        periodValue ==
            IF periodType = "years"
            THEN IF hasYears THEN MathMax(Num(1), MathRound(yearsValue.n))
                 ELSE IF hasDays
                      THEN MathMax(Num(1), MathRound(RDiv(daysValue.n, DAYS_PER_YEAR)))
                      ELSE Num(DAYS_PER_YEAR * 3)
            ELSE IF hasDays THEN MathMax(Num(1), MathRound(daysValue.n))
                 ELSE IF hasYears
                      THEN MathMax(Num(1), MathRound(RMul(yearsValue.n, DAYS_PER_YEAR)))
                      ELSE Num(DAYS_PER_YEAR * 3)
    IN  [periodType |-> periodType, periodValue |-> periodValue]

inferEditFormPeriod(existingItem) ==
    LET explicitType == Coalesce(existingItem.period_type,
                                 existingItem.depreciation_period_type)
        daysValue == Coalesce(existingItem.period_days, existingItem.depreciation_days)
        yearsValue == existingItem.depreciation_years
        hasDays == IsNumeric(daysValue)
        hasYears == IsNumeric(yearsValue)
        periodType ==
            IF explicitType = JsStr("years")
               \/ (~Truthy(explicitType) /\ hasYears /\ ~hasDays)
            THEN "years" ELSE "days"
        periodValue ==
            IF periodType = "years"
            THEN IF hasYears THEN MathMax(Num(1), MathRound(yearsValue.n))
                 ELSE IF hasDays
                      THEN MathMax(Num(1), MathRound(RDiv(daysValue.n, DAYS_PER_YEAR)))
                      ELSE Num(DAYS_PER_YEAR * 3)
            ELSE IF hasDays THEN MathMax(Num(1), MathRound(daysValue.n))
                 ELSE IF hasYears
                      THEN MathMax(Num(1), MathRound(RMul(yearsValue.n, DAYS_PER_YEAR)))
                      ELSE Num(DAYS_PER_YEAR * 3)
    IN  [periodType |-> periodType, periodValue |-> periodValue]

\* Items handed to the edit form: each type key absent, null or a string
\* (the empty one included), each period key absent, null, a string or a
\* number: zero, negative, a fraction, a whole number, NaN.
StoredDayValues ==
    {JsNum(Num(v)) : v \in -1 .. MaxDepDays}
        \cup {JsNum(Num(DAYS_PER_YEAR * MaxYears)), JsNum(NaN), JsStr("365")}

StoredYearValues ==
    {JsNum(Rat(n, 2)) : n \in -1 .. (2 * MaxYears)} \cup {JsNum(NaN), JsStr("3")}

EditItems ==
    [period_type : Absent \cup PeriodTypeValues \cup {JsStr("")},
     depreciation_period_type : Absent \cup PeriodTypeValues,
     period_days : {JsUndefined, JsNum(Num(MaxDepDays + 1))},
     depreciation_days : {JsUndefined} \cup StoredDayValues,
     depreciation_years : Absent \cup StoredYearValues]

InitInfer ==
    /\ members = <<>>
    /\ items = <<>>
    /\ now = 0
    /\ cards = NotRendered
    /\ users = <<>>
    /\ user_tokens = <<>>
    /\ requests = <<>>
    /\ store = EmptyStore
    /\ \E existingItem \in EditItems :
          call = [fn |-> "input", arg |-> existingItem, ret |-> existingItem]
    /\ sqlite_sequence = SequenceAfter(items)
    /\ uuids = 0

CallInferEditFormPeriod ==
    /\ call.fn = "input"
    /\ call' = [fn |-> "inferEditFormPeriod", arg |-> call.arg,
                ret |-> inferEditFormPeriod(call.arg)]
    /\ UNCHANGED <<members, items, now, cards, store, users, user_tokens, requests,
                   sqlite_sequence, uuids>>

NextInfer == CallInferEditFormPeriod

SpecInfer == InitInfer /\ [][NextInfer]_vars

(***************************************************************************)
(* Items: the ItemForm of the group page, the items routes and the         *)
(* database helpers.  `items` is the shared_items table of one group; a    *)
(* number whose value is whole is kept as an integer in a row.  Each       *)
(* request leaves in `call` what was asked and what was answered.          *)
(***************************************************************************)
SqlNumber(a) == IF a[2] = 1 THEN a[1] ELSE a

\* The first lines of createItem and updateItem, without Math.max(1, ...).
depreciationDaysOf_NoMinimum(depreciationValue, depreciationPeriodType) ==
    LET v == IF Truthy(depreciationValue) THEN depreciationValue.n ELSE Num(1)
    IN  IF depreciationPeriodType = "days"
        THEN MathRound(v)
        ELSE MathRound(RMul(v, DAYS_PER_YEAR))

\* The first lines of createItem and updateItem: the days to store.
depreciationDaysOf(depreciationValue, depreciationPeriodType) ==
    LET v == IF Truthy(depreciationValue) THEN depreciationValue.n ELSE Num(1)
    IN  IF depreciationPeriodType = "days"
        THEN MathMax(Num(1), MathRound(v))
        ELSE MathMax(Num(1), MathRound(RMul(v, DAYS_PER_YEAR)))

depreciationYearsOf(depreciationValue, depreciationPeriodType) ==
    IF depreciationPeriodType = "days"
    THEN SqlNumber(MathRound(RDiv(depreciationDaysOf(depreciationValue, depreciationPeriodType),
                                  DAYS_PER_YEAR)))
    ELSE IF Truthy(depreciationValue) THEN SqlNumber(depreciationValue.n) ELSE NoDate

ItemRow(id, price, purchaseDate, depreciationValue, depreciationPeriodType) ==
    [id |-> id,
     price |-> SqlNumber(price.n),
     purchase_date |-> purchaseDate.n[1],
     depreciation_days |->
        SqlNumber(depreciationDaysOf(depreciationValue, depreciationPeriodType)),
     depreciation_years |-> depreciationYearsOf(depreciationValue, depreciationPeriodType),
     depreciation_period_type |-> depreciationPeriodType]

\* INSERT INTO shared_items: id INTEGER PRIMARY KEY AUTOINCREMENT, the id
\* after the largest the table has ever given out, that of a deleted row
\* included.
lastInsertRowid(sequence) == sequence.shared_items + 1

createItem(its, sequence, price, purchaseDate, depreciationValue, depreciationPeriodType) ==
    Append(its, ItemRow(lastInsertRowid(sequence), price, purchaseDate,
                        depreciationValue, depreciationPeriodType))

\* UPDATE ... WHERE id = ?: the columns named are set, the others kept.
updateItem(its, itemId, price, purchaseDate, depreciationValue, depreciationPeriodType) ==
    [k \in 1 .. Len(its) |->
        IF its[k].id = itemId
        THEN ItemRow(itemId, price, purchaseDate, depreciationValue, depreciationPeriodType)
                 @@ its[k]
        ELSE its[k]]

\* DELETE FROM shared_items WHERE id = ?
deleteItem(its, itemId) == SelectSeq(its, LAMBDA r : r.id # itemId)

\* createItemSchema and updateItemSchema, applied to the normalized body.
ItemSchemaAccepts(p) ==
    /\ p.name.t = "string" /\ p.name.s \notin {"", "F"}
    /\ p.price.t = "number" /\ p.price.n[1] > 0
    /\ p.purchaseDate.t = "string" /\ p.purchaseDate.s # ""
    /\ p.depreciationDays.t = "number"
    /\ IsInteger(p.depreciationDays.n)
    /\ p.depreciationDays.n[1] >= 1
    /\ p.periodType \in PeriodTypeValues

Asked(fn, parsedRaw, itemId) ==
    [fn |-> fn, depreciationDays |-> parsedRaw.depreciationDays,
     periodType |-> parsedRaw.periodType, itemId |-> itemId]

\* POST /api/groups/[groupId]/items for a caller who is a member or not.
PostItem(raw, isMember, asked) ==
    LET parsedRaw == normalizeIncomingItemPayload(raw)
    IN  IF ~isMember
        THEN /\ call' = [fn |-> asked.fn, arg |-> asked, ret |-> [status |-> 403, id |-> 0]]
             /\ UNCHANGED <<items, sqlite_sequence>>
        ELSE IF ~ItemSchemaAccepts(parsedRaw)
        THEN /\ call' = [fn |-> asked.fn, arg |-> asked, ret |-> [status |-> 400, id |-> 0]]
             /\ UNCHANGED <<items, sqlite_sequence>>
        ELSE /\ items' = createItem(items, sqlite_sequence, parsedRaw.price,
                                    parsedRaw.purchaseDate,
                                    parsedRaw.depreciationDays, parsedRaw.periodType.s)
             /\ sqlite_sequence' = [sqlite_sequence EXCEPT
                                        !.shared_items = lastInsertRowid(sqlite_sequence)]
             /\ call' = [fn |-> asked.fn, arg |-> asked,
                         ret |-> [status |-> 200, id |-> lastInsertRowid(sqlite_sequence)]]

\* PUT /api/groups/[groupId]/items/[itemId].
PutItem(itemId, raw, isMember, asked) ==
    LET parsedRaw == normalizeIncomingItemPayload(raw)
    IN  IF ~isMember
        THEN /\ call' = [fn |-> asked.fn, arg |-> asked, ret |-> [status |-> 403, id |-> 0]]
             /\ UNCHANGED items
        ELSE IF ~ItemSchemaAccepts(parsedRaw)
        THEN /\ call' = [fn |-> asked.fn, arg |-> asked, ret |-> [status |-> 400, id |-> 0]]
             /\ UNCHANGED items
        ELSE IF \A k \in 1 .. Len(items) : items[k].id # itemId
        THEN /\ call' = [fn |-> asked.fn, arg |-> asked, ret |-> [status |-> 404, id |-> 0]]
             /\ UNCHANGED items
        ELSE /\ items' = updateItem(items, itemId, parsedRaw.price, parsedRaw.purchaseDate,
                                    parsedRaw.depreciationDays, parsedRaw.periodType.s)
             /\ call' = [fn |-> asked.fn, arg |-> asked,
                         ret |-> [status |-> 200, id |-> itemId]]

\* DELETE /api/groups/[groupId]/items/[itemId].
DeleteItem(itemId, isMember, asked) ==
    IF ~isMember
    THEN /\ call' = [fn |-> asked.fn, arg |-> asked, ret |-> [status |-> 403, id |-> 0]]
         /\ UNCHANGED items
    ELSE IF \A k \in 1 .. Len(items) : items[k].id # itemId
    THEN /\ call' = [fn |-> asked.fn, arg |-> asked, ret |-> [status |-> 404, id |-> 0]]
         /\ UNCHANGED items
    ELSE /\ items' = deleteItem(items, itemId)
         /\ call' = [fn |-> asked.fn, arg |-> asked, ret |-> [status |-> 200, id |-> itemId]]

ItemBody(period_days, period_type) ==
    [name |-> JsStr("Fridge"),
     price |-> JsNum(Num(MaxPrice)),
     purchaseDate |-> JsDate(1),
     period_days |-> period_days,
     depreciationDays |-> JsUndefined,
     depreciation_days |-> JsUndefined,
     period_type |-> period_type,
     periodType |-> JsUndefined,
     depreciation_period_type |-> JsUndefined]

\* What a user can have in the period fields of the form when pressing
\* the submit button.
FormPeriodValues == {Num(v) : v \in 0 .. MaxDepDays} \cup {Rat(1, 2)}

\* itemSchema of the form: periodValue is a whole number >= 1.
FormAccepts(values) ==
    /\ values.periodType \in {"days", "years"}
    /\ IsInteger(values.periodValue)
    /\ values.periodValue[1] >= 1

\* The body ItemForm.onSubmit sends.
FormBody(values) ==
    ItemBody(JsNum(IF values.periodType = "years"
                   THEN MathMax(Num(1), MathRound(RMul(values.periodValue, DAYS_PER_YEAR)))
                   ELSE values.periodValue),
             JsStr(values.periodType))

\* The item forms open in the browsers of the group's members; each has
\* sent its request and awaits the answer, or is idle.
FormIds == 1 .. MaxForms

RequestIds == 1 .. MaxRequests

Idle == [pc |-> "idle"]

\* The user submits the item form, to add an item (existing = 0) or to
\* change the item `existing` of the page's list; the form sends nothing
\* when its own validation fails.  onSubmit builds the request from the
\* form's copy of the item and awaits fetch(): the route's handler awaits
\* requireAuth(), params and request.json() before it reads the table, and
\* the handlers of other requests run meanwhile.
SubmitItemForm(r) ==
    \E periodType \in {"days", "years"} : \E periodValue \in FormPeriodValues :
    \E existing \in {0} \cup {items[k].id : k \in 1 .. Len(items)} :
        LET values == [periodType |-> periodType, periodValue |-> periodValue]
        IN  /\ requests[r].pc = "idle"
            /\ FormAccepts(values)
            /\ requests' = [requests EXCEPT ![r] =
                               [pc |-> "fetch", existing |-> existing, values |-> values]]
            /\ UNCHANGED <<members, items, now, cards, store, call, users, user_tokens,
                           sqlite_sequence, uuids>>

\* The handler of the form's request has its body: it validates, writes
\* and answers without another await, on the table as it is by then.
ItemFormAnswered(r) ==
    /\ requests[r].pc = "fetch"
    /\ LET values == requests[r].values
           existing == requests[r].existing
           asked == [fn |-> "ItemForm.onSubmit",
                     depreciationDays |-> JsNum(values.periodValue),
                     periodType |-> JsStr(values.periodType), itemId |-> existing]
       IN  IF existing = 0
           THEN /\ Len(items) < MaxRows
                /\ sqlite_sequence.shared_items < MaxItemId
                /\ PostItem(FormBody(values), TRUE, asked)
           ELSE /\ PutItem(existing, FormBody(values), TRUE, asked)
                /\ UNCHANGED sqlite_sequence
    /\ requests' = [requests EXCEPT ![r] = Idle]
    /\ UNCHANGED <<members, now, cards, store, users, user_tokens, uuids>>

\* Bodies another client may send: one period key and one type key, each
\* absent, null, or set, the period also to 0, a negative number or a half.
\* Such a request is taken at the moment its handler has the body.
ApiPeriodValues ==
    Absent \cup {JsNum(Num(v)) : v \in (-1) .. MaxDepDays} \cup {JsNum(Rat(1, 2))}

ApiTypeValues == {JsUndefined} \cup PeriodTypeValues \cup {JsStr("weeks")}

ApiPostItem ==
    \E v \in ApiPeriodValues : \E ty \in ApiTypeValues : \E isMember \in BOOLEAN :
        /\ Len(items) < MaxRows
        /\ sqlite_sequence.shared_items < MaxItemId
        /\ PostItem(ItemBody(v, ty), isMember,
                    Asked("POST", normalizeIncomingItemPayload(ItemBody(v, ty)), 0))
        /\ UNCHANGED <<members, now, cards, store, users, user_tokens, requests,
                       uuids>>

ApiPutItem ==
    \E v \in ApiPeriodValues : \E ty \in ApiTypeValues : \E isMember \in BOOLEAN :
    \E itemId \in 1 .. MaxItemId :
        /\ PutItem(itemId, ItemBody(v, ty), isMember,
                   Asked("PUT", normalizeIncomingItemPayload(ItemBody(v, ty)), itemId))
        /\ UNCHANGED <<members, now, cards, store, users, user_tokens, requests,
                       sqlite_sequence, uuids>>

ApiDeleteItem ==
    \E isMember \in BOOLEAN : \E itemId \in 1 .. MaxItemId :
        /\ DeleteItem(itemId, isMember, [fn |-> "DELETE", itemId |-> itemId])
        /\ UNCHANGED <<members, now, cards, store, users, user_tokens, requests,
                       sqlite_sequence, uuids>>

\* The depreciation length calculateRefundForItem of the local store uses;
\* NoDate stands for an absent field.
storeDepreciationDays(item) ==
    Max(1, IF item.depreciationDays # NoDate
           THEN item.depreciationDays
           ELSE IF item.depreciationYears # NoDate /\ item.depreciationYears # 0
                THEN item.depreciationYears * DAYS_PER_YEAR
                ELSE DAYS_PER_YEAR)

InitItems ==
    /\ members = <<>>
    /\ items = <<>>
    /\ now = 0
    /\ cards = NotRendered
    /\ users = <<>>
    /\ user_tokens = <<>>
    /\ requests = [r \in FormIds |-> Idle]
    /\ store = EmptyStore
    /\ call = NoCall
    /\ sqlite_sequence = SequenceAfter(items)
    /\ uuids = 0

NextItems ==
    \/ \E r \in FormIds : SubmitItemForm(r) \/ ItemFormAnswered(r)
    \/ ApiPostItem
    \/ ApiPutItem
    \/ ApiDeleteItem

SpecItems == InitItems /\ [][NextItems]_vars

\* The item routes alone, called with any of the bodies above.
NextItemRequests == ApiPostItem \/ ApiPutItem \/ ApiDeleteItem

SpecItemRequests == InitItems /\ [][NextItemRequests]_vars

(***************************************************************************)
(* Members: the groups, join, members and register routes with their       *)
(* database helpers.  `members` is the whole group_members table joined    *)
(* with member_leave_dates, in insertion order, each row with its          *)
(* group_id.  No statement deletes a row of groups, group_members, users   *)
(* or user_tokens, so the next id of each table is one more than its       *)
(* number of rows; createGroup inserts a group and its owner's row         *)
(* together, so the groups are those of the owners' rows and group g has   *)
(* the invite code InviteCode(g).  A handler is one step per stretch       *)
(* between two awaits in which it reads or writes a table; what a request  *)
(* carries is chosen in the step that reads it.  In a request NotGiven is  *)
(* a key absent from the body and NoDate is null.                          *)
(***************************************************************************)
DateStrings == {Day(d) : d \in Days}

GroupIds == 1 .. MaxGroups

\* The id of the group created last, 0 when there is none.
lastGroupId(rows) == Cardinality({rows[k].group_id : k \in 1 .. Len(rows)})

\* generateInviteCode: a code no other group has.
InviteCode(groupId) == "code" \o ToString(groupId)

\* dbHelpers.createGroup: the group, and the owner's row with the join date
\* passed or CURRENT_TIMESTAMP.
createGroup(rows, ownerId, ownerJoinedAt) ==
    Append(rows, [id |-> Len(rows) + 1, group_id |-> lastGroupId(rows) + 1,
                  user_id |-> ownerId, role |-> "owner",
                  joined_at |-> IF ownerJoinedAt # NotGiven THEN ownerJoinedAt ELSE now,
                  leave_date |-> NoDate])

\* The id of the group with the invite code, 0 when no group has it.
getGroupByInviteCode(rows, inviteCode) ==
    IF \E g \in 1 .. lastGroupId(rows) : InviteCode(g) = inviteCode
    THEN CHOOSE g \in 1 .. lastGroupId(rows) : InviteCode(g) = inviteCode
    ELSE 0

\* dbHelpers.joinGroup: role is 'member' by default, joined_at is the date
\* passed or CURRENT_TIMESTAMP.
joinGroup(rows, groupId, userId, joinedAt) ==
    Append(rows, [id |-> Len(rows) + 1, group_id |-> groupId, user_id |-> userId,
                  role |-> "member",
                  joined_at |-> IF joinedAt # NotGiven THEN joinedAt ELSE now,
                  leave_date |-> NoDate])

\* UNIQUE(group_id, user_id): the INSERT of joinGroup throws for a user who
\* has a row in the group.
isUserInGroup(rows, userId, groupId) ==
    \E k \in 1 .. Len(rows) : rows[k].user_id = userId /\ rows[k].group_id = groupId

\* The id of the membership row isUserInGroup returns.
membershipId(rows, userId, groupId) ==
    rows[CHOOSE k \in 1 .. Len(rows) :
             rows[k].user_id = userId /\ rows[k].group_id = groupId].id

getUserRoleInGroup(rows, userId, groupId) ==
    IF isUserInGroup(rows, userId, groupId)
    THEN rows[CHOOSE k \in 1 .. Len(rows) :
                 rows[k].user_id = userId /\ rows[k].group_id = groupId].role
    ELSE "null"

getGroupMembers(rows, groupId) ==
    OrderByRoleJoinedAt(SelectSeq(rows, LAMBDA row : row.group_id = groupId))

updateMemberLeaveDate(rows, groupMemberId, leaveDate) ==
    [k \in 1 .. Len(rows) |->
        IF rows[k].id = groupMemberId THEN [rows[k] EXCEPT !.leave_date = leaveDate]
        ELSE rows[k]]

updateMemberJoinedAt(rows, groupMemberId, joinedAt) ==
    [k \in 1 .. Len(rows) |->
        IF rows[k].id = groupMemberId THEN [rows[k] EXCEPT !.joined_at = joinedAt]
        ELSE rows[k]]

\* bcrypt.hash: never the password itself.
hashPassword(password) == <<"bcrypt", password>>

\* The users table; its rows are never deleted, so the next id is the
\* number of rows plus one.
NoUser == [id |-> 0, email |-> "", name |-> "", password_hash |-> <<>>]

createUser(rows, email, passwordHash, name) ==
    Append(rows, [id |-> Len(rows) + 1, email |-> email, name |-> name,
                  password_hash |-> passwordHash])

getUserByEmail(rows, email) ==
    IF \E k \in 1 .. Len(rows) : rows[k].email = email
    THEN rows[CHOOSE k \in 1 .. Len(rows) : rows[k].email = email]
    ELSE NoUser

getUserById(rows, id) ==
    IF \E k \in 1 .. Len(rows) : rows[k].id = id
    THEN rows[CHOOSE k \in 1 .. Len(rows) : rows[k].id = id]
    ELSE NoUser

\* crypto.randomBytes(24): a token no row has yet.
randomToken(rows) == "t" \o ToString(Len(rows) + 1)

SEVEN_DAYS == 7 * ONE_DAY_MS

createUserToken(rows, userId, token, type, expiresAt) ==
    Append(rows, [token |-> token, user_id |-> userId, type |-> type, used |-> 0,
                  expires_at |-> expiresAt])

\* Two registered users and no group yet, during day 1; no request is
\* being served.
InitMemberOps ==
    /\ now \in {c \in Daytime : normalizeDate(c) = Day(1)}
    /\ members = <<>>
    /\ items = <<>>
    /\ cards = NotRendered
    /\ users = createUser(createUser(<<>>, "owner@x", hashPassword("owner"), "Owner"),
                          "bob@x", hashPassword("bob"), "Bob")
    /\ user_tokens = <<>>
    /\ requests = [r \in 1 .. MaxInFlight |-> Idle]
    /\ store = EmptyStore
    /\ call = NoCall
    /\ sqlite_sequence = SequenceAfter(items)
    /\ uuids = 0

\* The users a session can belong to.
SessionUsers == {users[k].id : k \in 1 .. Len(users)}

\* POST /api/groups: a name, and a join date for the owner or none.  An
\* empty name and a join date of null fail the schema.  The date is cut to
\* its day.  The handler's awaits come before it reads a table.
CreateGroupBodies ==
    [name : {"", "Flat"}, joinedAt : {NotGiven, NoDate, Day(2), Day(2) + 1}]

CreateGroup ==
    \E userId \in SessionUsers : \E body \in CreateGroupBodies :
        /\ IF body.name = "" \/ body.joinedAt = NoDate
           THEN /\ call' = [fn |-> "createGroup", ret |-> [status |-> 400]]
                /\ UNCHANGED members
           ELSE /\ Len(members) < MaxMemberRows
                /\ lastGroupId(members) < MaxGroups
                /\ members' = createGroup(members, userId,
                                  IF body.joinedAt = NotGiven THEN NotGiven
                                  ELSE normalizeDate(body.joinedAt))
                /\ call' = [fn |-> "createGroup", ret |-> [status |-> 200]]
        /\ UNCHANGED <<items, now, cards, store, users, user_tokens, requests,
                       sqlite_sequence, uuids>>

\* POST /api/groups/join with an invite code: no code fails the schema, a
\* code of no group is not found, a user who has a row in the group is
\* turned down.  The handler's awaits come before it reads a table.
JoinCodes == {"", "nocode"} \cup {InviteCode(g) : g \in GroupIds}

JoinByInviteCode ==
    \E userId \in SessionUsers : \E inviteCode \in JoinCodes :
        LET groupId == getGroupByInviteCode(members, inviteCode)
        IN  /\ IF inviteCode = ""
               THEN /\ call' = [fn |-> "join", ret |-> [status |-> 400]]
                    /\ UNCHANGED members
               ELSE IF groupId = 0
               THEN /\ call' = [fn |-> "join", ret |-> [status |-> 404]]
                    /\ UNCHANGED members
               ELSE IF isUserInGroup(members, userId, groupId)
               THEN /\ call' = [fn |-> "join", ret |-> [status |-> 400]]
                    /\ UNCHANGED members
               ELSE /\ Len(members) < MaxMemberRows
                    /\ members' = joinGroup(members, groupId, userId, NotGiven)
                    /\ call' = [fn |-> "join", ret |-> [status |-> 200]]
            /\ UNCHANGED <<items, now, cards, store, users, user_tokens, requests,
                           sqlite_sequence, uuids>>

\* POST /api/groups/[groupId]/members, lines 256-265: the session is read
\* and the caller's role in the group tested, only the owner may go on; the
\* handler then awaits request.json().
PostMembersArrives(r) ==
    \E userId \in SessionUsers : \E groupId \in GroupIds :
        /\ requests[r].pc = "idle"
        /\ IF getUserRoleInGroup(members, userId, groupId) # "owner"
           THEN /\ call' = [fn |-> "POST members", ret |-> [status |-> 403]]
                /\ UNCHANGED requests
           ELSE /\ requests' = [requests EXCEPT ![r] =
                       [pc |-> "json", action |-> "POST members", groupId |-> groupId]]
                /\ UNCHANGED call
        /\ UNCHANGED <<members, items, now, cards, store, users, user_tokens,
                       sqlite_sequence, uuids>>

\* The bodies of that POST: an invite with a name, an email (none, a
\* registered user's, an unknown one) and a join date or none; a reset
\* with the id of a user or none; another action.
PostMembersBodies ==
    [action : {"invite"}, name : {"", "Ann"}, email : {"", "bob@x", "ann@x"},
     joinedAt : {NotGiven, Day(2)}]
        \cup [action : {"reset"}, userId : 0 .. (MaxUsers + 1)]
        \cup [action : {"other"}]

\* Lines 269-297 for an invite read: without an email or a name it is
\* turned down; for the email of a user the user joins the group and gets a
\* signup token; for an unknown email the handler awaits hashPassword().
\* An INSERT that fails throws, and the request is answered 500.
InviteReadsBody(r, body) ==
    LET req == requests[r]
        user == getUserByEmail(users, body.email)
    IN  /\ IF body.email = "" \/ body.name = ""
           THEN /\ call' = [fn |-> "invite", ret |-> [status |-> 400]]
                /\ requests' = [requests EXCEPT ![r] = Idle]
                /\ UNCHANGED <<members, user_tokens>>
           ELSE IF user = NoUser
           THEN /\ requests' = [requests EXCEPT ![r] =
                       [pc |-> "hashing", action |-> "invite", groupId |-> req.groupId,
                        email |-> body.email, name |-> body.name,
                        joinedAt |-> body.joinedAt]]
                /\ UNCHANGED <<members, user_tokens, call>>
           ELSE IF isUserInGroup(members, user.id, req.groupId)
           THEN /\ call' = [fn |-> "invite", ret |-> [status |-> 500]]
                /\ requests' = [requests EXCEPT ![r] = Idle]
                /\ UNCHANGED <<members, user_tokens>>
           ELSE /\ Len(members) < MaxMemberRows
                /\ Len(user_tokens) < MaxTokens
                /\ members' = joinGroup(members, req.groupId, user.id, body.joinedAt)
                /\ user_tokens' = createUserToken(user_tokens, user.id,
                                      randomToken(user_tokens), "signup", now + SEVEN_DAYS)
                /\ call' = [fn |-> "invite", ret |-> [status |-> 200]]
                /\ requests' = [requests EXCEPT ![r] = Idle]
        /\ UNCHANGED users

\* Lines 300-315 for a reset read: a reset token for the user named, if
\* there is one.
ResetReadsBody(r, body) ==
    LET user == getUserById(users, body.userId)
    IN  /\ IF body.userId = 0
           THEN /\ call' = [fn |-> "reset", ret |-> [status |-> 400]]
                /\ UNCHANGED user_tokens
           ELSE IF user = NoUser
           THEN /\ call' = [fn |-> "reset", ret |-> [status |-> 404]]
                /\ UNCHANGED user_tokens
           ELSE /\ Len(user_tokens) < MaxTokens
                /\ user_tokens' = createUserToken(user_tokens, user.id,
                                      randomToken(user_tokens), "reset", now + SEVEN_DAYS)
                /\ call' = [fn |-> "reset", ret |-> [status |-> 200]]
        /\ requests' = [requests EXCEPT ![r] = Idle]
        /\ UNCHANGED <<members, users>>

\* Lines 266-318: the body is read and the action it names carried out.
PostMembersReadsBody(r) ==
    \E body \in PostMembersBodies :
        /\ requests[r].pc = "json"
        /\ requests[r].action = "POST members"
        /\ IF body.action = "invite" THEN InviteReadsBody(r, body)
           ELSE IF body.action = "reset" THEN ResetReadsBody(r, body)
           ELSE /\ call' = [fn |-> "POST members", ret |-> [status |-> 400]]
                /\ requests' = [requests EXCEPT ![r] = Idle]
                /\ UNCHANGED <<members, users, user_tokens>>
        /\ UNCHANGED <<items, now, cards, store, sqlite_sequence, uuids>>

\* Lines 281-297, the hash being ready: the user is created with the
\* temporary password, joins the group and gets a signup token.  The INSERT
\* of createUser throws when the email has been taken since (email TEXT
\* UNIQUE), and the request is answered 500.
InviteCreatesUser(r) ==
    LET req == requests[r]
        created == createUser(users, req.email, hashPassword("temp"), req.name)
        user == created[Len(created)]
    IN  /\ req.pc = "hashing"
        /\ req.action = "invite"
        /\ IF getUserByEmail(users, req.email) # NoUser
           THEN /\ call' = [fn |-> "invite", ret |-> [status |-> 500]]
                /\ UNCHANGED <<members, users, user_tokens>>
           ELSE /\ Len(users) < MaxUsers
                /\ Len(members) < MaxMemberRows
                /\ Len(user_tokens) < MaxTokens
                /\ users' = created
                /\ members' = joinGroup(members, req.groupId, user.id, req.joinedAt)
                /\ user_tokens' = createUserToken(user_tokens, user.id,
                                      randomToken(user_tokens), "signup", now + SEVEN_DAYS)
                /\ call' = [fn |-> "invite", ret |-> [status |-> 200]]
        /\ requests' = [requests EXCEPT ![r] = Idle]
        /\ UNCHANGED <<items, now, cards, store, sqlite_sequence, uuids>>

\* POST /api/auth/register, lines 14-27: the body is read and the email
\* looked up; the handler then awaits hashPassword().
RegisterChecksEmail(r) ==
    \E email \in {"bob@x", "ann@x"} :
        /\ requests[r].pc = "idle"
        /\ IF getUserByEmail(users, email) # NoUser
           THEN /\ call' = [fn |-> "register", ret |-> [status |-> 400]]
                /\ UNCHANGED requests
           ELSE /\ requests' = [requests EXCEPT ![r] =
                       [pc |-> "hashing", action |-> "register", email |-> email,
                        name |-> "Ann"]]
                /\ UNCHANGED call
        /\ UNCHANGED <<members, items, now, cards, store, users, user_tokens,
                       sqlite_sequence, uuids>>

\* Lines 27-31: the user is created with the password given, unless the
\* email has been taken since; the handler then awaits createSession().
RegisterCreatesUser(r) ==
    LET req == requests[r]
    IN  /\ req.pc = "hashing"
        /\ req.action = "register"
        /\ IF getUserByEmail(users, req.email) # NoUser
           THEN /\ call' = [fn |-> "register", ret |-> [status |-> 500]]
                /\ requests' = [requests EXCEPT ![r] = Idle]
                /\ UNCHANGED users
           ELSE /\ Len(users) < MaxUsers
                /\ users' = createUser(users, req.email, hashPassword("secret"), req.name)
                /\ requests' = [requests EXCEPT ![r] = [req EXCEPT !.pc = "session"]]
                /\ UNCHANGED call
        /\ UNCHANGED <<members, items, now, cards, store, user_tokens, sqlite_sequence, uuids>>

\* Lines 31-40: the session cookie is set and the request answered.
RegisterAnswers(r) ==
    /\ requests[r].pc = "session"
    /\ requests[r].action = "register"
    /\ call' = [fn |-> "register", ret |-> [status |-> 200]]
    /\ requests' = [requests EXCEPT ![r] = Idle]
    /\ UNCHANGED <<members, items, now, cards, store, users, user_tokens,
                   sqlite_sequence, uuids>>

\* PATCH /api/groups/[groupId]/members, lines 330-339: the session is read
\* and the caller's row in the group looked up; a caller without one is
\* turned down, for the others the handler awaits request.json().
PatchArrives(r) ==
    \E userId \in SessionUsers : \E groupId \in GroupIds :
        /\ requests[r].pc = "idle"
        /\ IF ~isUserInGroup(members, userId, groupId)
           THEN /\ call' = [fn |-> "PATCH", ret |-> [status |-> 403]]
                /\ UNCHANGED requests
           ELSE /\ requests' = [requests EXCEPT ![r] =
                       [pc |-> "json", action |-> "PATCH", userId |-> userId,
                        groupId |-> groupId,
                        membership |-> membershipId(members, userId, groupId)]]
                /\ UNCHANGED call
        /\ UNCHANGED <<members, items, now, cards, store, users, user_tokens,
                       sqlite_sequence, uuids>>

\* updateMemberSchema: leaveDate a string or null, joinedAt a string if
\* given, memberId a number if given.
UpdateMemberSchemaAccepts(body) ==
    /\ body.leaveDate # NotGiven
    /\ body.joinedAt # NoDate
    /\ body.memberId # NoDate

\* Lines 341-375, on the body read: what the handler answers and leaves in
\* the table, for the caller and the membership row of lines 330-333.
patchMember(rows, userId, groupId, membership, body) ==
    IF ~UpdateMemberSchemaAccepts(body) THEN [status |-> 400, rows |-> rows]
    ELSE IF /\ body.memberId \notin {NotGiven, NoDate}
            /\ getUserRoleInGroup(rows, userId, groupId) # "owner"
    THEN [status |-> 403, rows |-> rows]
    ELSE IF /\ body.memberId \notin {NotGiven, NoDate}
            /\ \A k \in 1 .. Len(getGroupMembers(rows, groupId)) :
                  getGroupMembers(rows, groupId)[k].id # body.memberId
    THEN [status |-> 404, rows |-> rows]
    ELSE LET targetGroupMemberId ==
                 IF body.memberId \notin {NotGiven, NoDate} THEN body.memberId
                 ELSE membership
             afterLeave ==
                 IF body.leaveDate # NotGiven
                 THEN updateMemberLeaveDate(rows, targetGroupMemberId, body.leaveDate)
                 ELSE rows
             afterJoined ==
                 IF body.joinedAt # NotGiven
                 THEN updateMemberJoinedAt(afterLeave, targetGroupMemberId, body.joinedAt)
                 ELSE afterLeave
         IN  [status |-> 200, rows |-> afterJoined]

\* The bodies of a PATCH: each key absent, null or set, the leave date to
\* the day the clock shows and the join date to the day after it; memberId
\* is the id of a row or of none.
PatchBodies ==
    [leaveDate : {NotGiven, NoDate, Day(1)},
     joinedAt : {NotGiven, NoDate, Day(2)},
     memberId : {NotGiven, NoDate} \cup (1 .. (MaxMemberRows + 1))]

\* The PATCH of request r reads the body given and answers.
PatchReadsBodyGiven(r, body) ==
    LET req == requests[r]
        result == patchMember(members, req.userId, req.groupId, req.membership, body)
    IN  /\ req.pc = "json"
        /\ req.action = "PATCH"
        /\ members' = result.rows
        /\ call' = [fn |-> "PATCH", ret |-> [status |-> result.status]]
        /\ requests' = [requests EXCEPT ![r] = Idle]
        /\ UNCHANGED <<items, now, cards, store, users, user_tokens, sqlite_sequence, uuids>>

PatchReadsBody(r) ==
    \E body \in PatchBodies :
        /\ requests[r].pc = "json"
        /\ PatchReadsBodyGiven(r, body)

NextMemberOps ==
    \/ CreateGroup
    \/ JoinByInviteCode
    \/ \E r \in 1 .. MaxInFlight :
          \/ PostMembersArrives(r)
          \/ PostMembersReadsBody(r)
          \/ InviteCreatesUser(r)
          \/ RegisterChecksEmail(r)
          \/ RegisterCreatesUser(r)
          \/ RegisterAnswers(r)
          \/ PatchArrives(r)
          \/ PatchReadsBody(r)

SpecMemberOps == InitMemberOps /\ [][NextMemberOps]_vars

(***************************************************************************)
(* Items of several groups: POST /api/groups/[groupId]/items and PUT and   *)
(* DELETE of /api/groups/[groupId]/items/[itemId] by an authenticated      *)
(* user, beside the requests that create groups and add members.  Here     *)
(* `items` is the whole shared_items table, each row with its group_id.    *)
(* POST and PUT await request.json() after the membership check; DELETE    *)
(* reads no body.                                                          *)
(***************************************************************************)
\* dbHelpers.createItem: the row of the item routes with the group of the
\* path and the user of the session.
createItemInGroup(its, sequence, groupId, body, createdBy) ==
    Append(its, [group_id |-> groupId, created_by |-> createdBy]
                    @@ ItemRow(lastInsertRowid(sequence), body.price, body.purchaseDate,
                               body.depreciationDays, body.periodType.s))

\* The bodies of a POST or PUT: a period of some days, 0 among them, which
\* the schema turns down.
GroupItemBodies == {ItemBody(JsNum(Num(days)), JsStr("days")) : days \in 0 .. MaxDepDays}

\* Lines 19-31 of the items route and 20-32 of the item route: the session
\* and the path are read and the caller's row in the group looked up; a
\* caller without one is turned down, for the others the handler awaits
\* request.json().
GroupItemArrives(r, method, itemId) ==
    \E userId \in SessionUsers : \E groupId \in GroupIds :
        /\ requests[r].pc = "idle"
        /\ IF ~isUserInGroup(members, userId, groupId)
           THEN /\ call' = [fn |-> method,
                            arg |-> [userId |-> userId, groupId |-> groupId,
                                     itemId |-> itemId],
                            ret |-> [status |-> 403, id |-> 0]]
                /\ UNCHANGED requests
           ELSE /\ requests' = [requests EXCEPT ![r] =
                       [pc |-> "json", action |-> method, userId |-> userId,
                        groupId |-> groupId, itemId |-> itemId]]
                /\ UNCHANGED call
        /\ UNCHANGED <<members, items, now, cards, store, users, user_tokens,
                       sqlite_sequence, uuids>>

PostGroupItemArrives(r) == GroupItemArrives(r, "POST", 0)

PutGroupItemArrives(r) == \E itemId \in 1 .. MaxItemId : GroupItemArrives(r, "PUT", itemId)

\* The POST has its body: it validates, inserts the item for the group of
\* the path and answers.
PostGroupItemReadsBody(r) ==
    \E raw \in GroupItemBodies :
        LET req == requests[r]
            parsedRaw == normalizeIncomingItemPayload(raw)
            asked == [userId |-> req.userId, groupId |-> req.groupId,
                      itemId |-> req.itemId]
        IN  /\ req.pc = "json"
            /\ req.action = "POST"
            /\ IF ~ItemSchemaAccepts(parsedRaw)
               THEN /\ call' = [fn |-> "POST", arg |-> asked, ret |-> [status |-> 400, id |-> 0]]
                    /\ UNCHANGED <<items, sqlite_sequence>>
               ELSE /\ Len(items) < MaxRows
                    /\ sqlite_sequence.shared_items < MaxItemId
                    /\ items' = createItemInGroup(items, sqlite_sequence, req.groupId,
                                                  parsedRaw, req.userId)
                    /\ sqlite_sequence' = [sqlite_sequence EXCEPT
                                              !.shared_items = lastInsertRowid(sqlite_sequence)]
                    /\ call' = [fn |-> "POST", arg |-> asked,
                                ret |-> [status |-> 200,
                                         id |-> lastInsertRowid(sqlite_sequence)]]
            /\ requests' = [requests EXCEPT ![r] = Idle]
            /\ UNCHANGED <<members, now, cards, store, users, user_tokens, uuids>>

\* The PUT has its body: it validates, updates the row with the id of the
\* path, whatever its group, and answers; 404 when no row has the id.
PutGroupItemReadsBody(r) ==
    \E raw \in GroupItemBodies :
        LET req == requests[r]
            parsedRaw == normalizeIncomingItemPayload(raw)
            asked == [userId |-> req.userId, groupId |-> req.groupId,
                      itemId |-> req.itemId]
        IN  /\ req.pc = "json"
            /\ req.action = "PUT"
            /\ IF ~ItemSchemaAccepts(parsedRaw)
               THEN /\ call' = [fn |-> "PUT", arg |-> asked, ret |-> [status |-> 400, id |-> 0]]
                    /\ UNCHANGED items
               ELSE IF \A k \in 1 .. Len(items) : items[k].id # req.itemId
               THEN /\ call' = [fn |-> "PUT", arg |-> asked, ret |-> [status |-> 404, id |-> 0]]
                    /\ UNCHANGED items
               ELSE /\ items' = updateItem(items, req.itemId, parsedRaw.price,
                                           parsedRaw.purchaseDate,
                                           parsedRaw.depreciationDays,
                                           parsedRaw.periodType.s)
                    /\ call' = [fn |-> "PUT", arg |-> asked, ret |-> [status |-> 200, id |-> req.itemId]]
            /\ requests' = [requests EXCEPT ![r] = Idle]
            /\ UNCHANGED <<members, now, cards, store, users, user_tokens,
                           sqlite_sequence, uuids>>

\* DELETE by the user for the group and item of the path: the membership
\* check, then the row with the id is deleted, whatever its group.
DeleteGroupItemBy(userId, groupId, itemId) ==
    LET asked == [userId |-> userId, groupId |-> groupId, itemId |-> itemId]
    IN
    /\ IF ~isUserInGroup(members, userId, groupId)
       THEN /\ call' = [fn |-> "DELETE", arg |-> asked, ret |-> [status |-> 403, id |-> 0]]
            /\ UNCHANGED items
       ELSE IF \A k \in 1 .. Len(items) : items[k].id # itemId
       THEN /\ call' = [fn |-> "DELETE", arg |-> asked, ret |-> [status |-> 404, id |-> 0]]
            /\ UNCHANGED items
       ELSE /\ items' = deleteItem(items, itemId)
            /\ call' = [fn |-> "DELETE", arg |-> asked, ret |-> [status |-> 200, id |-> itemId]]
    /\ UNCHANGED <<members, now, cards, store, users, user_tokens, requests,
                   sqlite_sequence, uuids>>

DeleteGroupItem ==
    \E userId \in SessionUsers : \E groupId \in GroupIds : \E itemId \in 1 .. MaxItemId :
        DeleteGroupItemBy(userId, groupId, itemId)

NextItemAccess ==
    \/ CreateGroup
    \/ JoinByInviteCode
    \/ DeleteGroupItem
    \/ \E r \in 1 .. MaxInFlight :
          \/ PostGroupItemArrives(r)
          \/ PostGroupItemReadsBody(r)
          \/ PutGroupItemArrives(r)
          \/ PutGroupItemReadsBody(r)
          \/ PostMembersArrives(r)
          \/ PostMembersReadsBody(r)
          \/ InviteCreatesUser(r)

SpecItemAccess == InitMemberOps /\ [][NextItemAccess]_vars

(***************************************************************************)
(* POST /api/auth/accept-invite.  `users` and `user_tokens` are the tables *)
(* of those names, `requests` the requests being served.  A handler runs   *)
(* without interruption from one await to the next: request.json(),        *)
(* hashPassword() and createSession() are its three awaits, and between    *)
(* them the handlers of other requests may run.                            *)
(***************************************************************************)
getUserToken(rows, token) ==
    IF \E k \in 1 .. Len(rows) : rows[k].token = token
    THEN rows[CHOOSE k \in 1 .. Len(rows) : rows[k].token = token]
    ELSE [token |-> "", user_id |-> 0, type |-> "", used |-> 0, expires_at |-> NoDate]

markUserTokenUsed(rows, token) ==
    [k \in 1 .. Len(rows) |->
        IF rows[k].token = token THEN [rows[k] EXCEPT !.used = 1] ELSE rows[k]]

updateUserPassword(rows, userId, passwordHash) ==
    [k \in 1 .. Len(rows) |->
        IF rows[k].id = userId THEN [rows[k] EXCEPT !.password_hash = passwordHash]
        ELSE rows[k]]

updateUserName(rows, userId, name) ==
    [k \in 1 .. Len(rows) |->
        IF rows[k].id = userId THEN [rows[k] EXCEPT !.name = name] ELSE rows[k]]

\* An invited user with the temporary password of the invite and one signup
\* token, with or without an expiry date.
InitAcceptInvite ==
    /\ members = <<>>
    /\ items = <<>>
    /\ now \in Clock
    /\ cards = NotRendered
    /\ store = EmptyStore
    /\ call = NoCall
    /\ users = createUser(<<>>, "invited@x", hashPassword("temp"), "Invited")
    /\ \E expires_at \in {NoDate, Day(1)} :
          user_tokens = createUserToken(<<>>, 1, "t1", "signup", expires_at)
    /\ requests = [r \in RequestIds |-> Idle]
    /\ sqlite_sequence = SequenceAfter(items)
    /\ uuids = 0

\* A request arrives; the handler awaits request.json().  The body has a
\* password the schema accepts, a name or none, and a token: the user's, an
\* unknown one, or the empty string, which the schema rejects.
AcceptInviteArrives(r) ==
    /\ requests[r].pc = "idle"
    /\ \E token \in {"t1", "nope", ""} : \E name \in {"", "Ann"} :
          requests' = [requests EXCEPT ![r] =
              [pc |-> "json", token |-> token, name |-> name,
               password |-> <<"password", r>>]]
    /\ UNCHANGED <<members, items, now, cards, store, call, users, user_tokens,
                   sqlite_sequence, uuids>>

Answer(req, status, error) ==
    [pc |-> "done", token |-> req.token, name |-> req.name, password |-> req.password,
     status |-> status, error |-> error, session |-> 0]

\* Lines 15-29: the body is parsed, the token row read and checked, the
\* user read; the handler then awaits hashPassword().
AcceptInviteChecksToken(r) ==
    /\ requests[r].pc = "json"
    /\ LET req == requests[r]
           tokenRow == getUserToken(user_tokens, req.token)
       IN  requests' = [requests EXCEPT ![r] =
               IF req.token = "" THEN Answer(req, 400, "Validation failed")
               ELSE IF tokenRow.token = "" THEN Answer(req, 400, "Invalid token")
               ELSE IF tokenRow.used # 0 THEN Answer(req, 400, "Token already used")
               ELSE IF tokenRow.expires_at # NoDate /\ tokenRow.expires_at < now
               THEN Answer(req, 400, "Token expired")
               ELSE IF \A k \in 1 .. Len(users) : users[k].id # tokenRow.user_id
               THEN Answer(req, 404, "User not found")
               ELSE [pc |-> "hashing", token |-> req.token, name |-> req.name,
                     password |-> req.password, userId |-> tokenRow.user_id]]
    /\ UNCHANGED <<members, items, now, cards, store, call, users, user_tokens,
                   sqlite_sequence, uuids>>

\* Lines 30-39: the hash is ready; the password and the name are written,
\* the token is marked used, and the handler awaits createSession().
AcceptInviteSetsPassword(r) ==
    /\ requests[r].pc = "hashing"
    /\ LET req == requests[r]
           withPassword == updateUserPassword(users, req.userId, hashPassword(req.password))
       IN  /\ users' = IF req.name # "" THEN updateUserName(withPassword, req.userId, req.name)
                       ELSE withPassword
           /\ user_tokens' = markUserTokenUsed(user_tokens, req.token)
           /\ requests' = [requests EXCEPT ![r] = [req EXCEPT !.pc = "session"]]
    /\ UNCHANGED <<members, items, now, cards, store, call,
                   sqlite_sequence, uuids>>

\* Lines 39-41: the session cookie is set and the request answered.
AcceptInviteAnswers(r) ==
    /\ requests[r].pc = "session"
    /\ requests' = [requests EXCEPT ![r] =
           [pc |-> "done", token |-> requests[r].token, name |-> requests[r].name,
            password |-> requests[r].password,
            status |-> 200, error |-> "", session |-> requests[r].userId]]
    /\ UNCHANGED <<members, items, now, cards, store, call, users, user_tokens,
                   sqlite_sequence, uuids>>

NextAcceptInvite ==
    \E r \in RequestIds :
        \/ AcceptInviteArrives(r)
        \/ AcceptInviteChecksToken(r)
        \/ AcceptInviteSetsPassword(r)
        \/ AcceptInviteAnswers(r)

SpecAcceptInvite == InitAcceptInvite /\ [][NextAcceptInvite]_vars

(***************************************************************************)
(* src/stores/app-store.ts: calculateRefundForItem of the local store.     *)
(* The store's dates are the calendar dates the forms produce (midnight).  *)
(***************************************************************************)
RECURSIVE refundLoop(_, _, _, _, _)
\* The while loop: one step per day from cursor to last.
refundLoop(cursor, last, perDayValue, membersAtPurchase, total) ==
    IF cursor > last THEN total
    ELSE LET presentCount ==
                 Len(SelectSeq(membersAtPurchase,
                               LAMBDA m : /\ ~(m.joiningDate > cursor)
                                          /\ ~(m.leaveDate # NoDate /\ m.leaveDate < cursor)))
         IN  refundLoop(cursor + ONE_DAY_MS, last, perDayValue, membersAtPurchase,
                        IF presentCount > 0
                        THEN RAdd(total, RDiv(perDayValue, presentCount))
                        ELSE total)

calculateRefundForItem(leavingMember, item, allMembers) ==
    IF leavingMember.leaveDate = NoDate \/ leavingMember.leaveDate <= item.purchaseDate
    THEN Num(0)
    ELSE IF leavingMember.joiningDate > item.purchaseDate THEN Num(0)
    ELSE LET depreciationDays == storeDepreciationDays(item)
             purchaseDate == item.purchaseDate
             depreciationEnd == purchaseDate + (depreciationDays - 1) * ONE_DAY_MS
             membersAtPurchase ==
                 SelectSeq(allMembers, LAMBDA m : m.joiningDate <= purchaseDate)
             startDate == purchaseDate
             endDate == IF leavingMember.leaveDate < depreciationEnd
                        THEN leavingMember.leaveDate ELSE depreciationEnd
             perDayValue == RDiv(Num(item.price), depreciationDays)
         IN  IF leavingMember.leaveDate >= depreciationEnd THEN Num(0)
             ELSE IF endDate < startDate THEN Num(0)
             ELSE refundLoop(normalizeDate(startDate), normalizeDate(endDate),
                             perDayValue, membersAtPurchase, Num(0))

\* The dates and periods of the store: two days more than the engine's, so
\* that a member can leave on several days inside an item's window.
StoreDates == {Day(d) : d \in 0 .. (MaxDay + 1)}

StoreMembers ==
    [id : {0}, joiningDate : {Day(0), Day(1), Day(2)},
     leaveDate : {NoDate} \cup StoreDates]

\* An item without depreciationDays and depreciationYears depreciates over
\* 365 days; its price is a multiple of 365, so that the value per day is a
\* whole number as it is for the items with a period given in days.
StoreItems ==
    [id : {1}, price : {MaxPrice}, purchaseDate : {Day(1)},
     depreciationDays : 1 .. (MaxDepDays + 2),
     depreciationYears : {NoDate}]
    \cup
    [id : {1}, price : {DAYS_PER_YEAR * MaxPrice}, purchaseDate : {Day(1)},
     depreciationDays : {NoDate},
     depreciationYears : {NoDate}]

\* A store with one item and one or two members.
InitStoreRefund ==
    /\ members = <<>>
    /\ items = <<>>
    /\ now = 0
    /\ cards = NotRendered
    /\ users = <<>>
    /\ user_tokens = <<>>
    /\ requests = <<>>
    /\ call = NoCall
    /\ \E a \in StoreMembers : \E b \in StoreMembers : \E item \in StoreItems :
       \E n \in 1 .. 2 :
          store = [members |-> SubSeq(<<[a EXCEPT !.id = 1], [b EXCEPT !.id = 2]>>, 1, n),
                   items |-> <<item>>]
    /\ sqlite_sequence = SequenceAfter(items)
    /\ uuids = 0

CallCalculateRefundForItem ==
    \E i \in 1 .. Len(store.members) : \E k \in 1 .. Len(store.items) :
        /\ call' = [fn |-> "calculateRefundForItem", arg |-> [member |-> i, item |-> k],
                    ret |-> calculateRefundForItem(store.members[i], store.items[k],
                                                   store.members)]
        /\ UNCHANGED <<members, items, now, cards, store, users, user_tokens, requests,
                       sqlite_sequence, uuids>>

NextStoreRefund == CallCalculateRefundForItem

SpecStoreRefund == InitStoreRefund /\ [][NextStoreRefund]_vars

(***************************************************************************)
(* The actions of the local store.  An id is a uuidv4(): `uuids` counts    *)
(* the identifiers drawn so far, and the identifier of a draw is its       *)
(* number, so that no two draws give the same.                             *)
(***************************************************************************)
uuidv4(drawn) == drawn + 1

\* What addItem is given: an item without its id.
StoreItemInputs ==
    [price : {MaxPrice}, purchaseDate : {Day(1)},
     depreciationDays : (1 .. MaxDepDays) \cup {NoDate},
     depreciationYears : {NoDate}]

\* What editItem is given: some of the fields of an item.
StoreItemUpdates ==
    [price : {1, MaxPrice}]
        \cup [depreciationDays : 1 .. MaxDepDays]
        \cup [purchaseDate : {Day(0)}, depreciationYears : {1}]

\* { ...item, ...itemUpdate }: the fields of the update, and of the item
\* where the update has none.
SpreadItem(item, itemUpdate) ==
    [f \in DOMAIN item \cup DOMAIN itemUpdate |->
        IF f \in DOMAIN itemUpdate THEN itemUpdate[f] ELSE item[f]]

InitStore ==
    /\ members = <<>>
    /\ items = <<>>
    /\ now = 0
    /\ cards = NotRendered
    /\ users = <<>>
    /\ user_tokens = <<>>
    /\ requests = <<>>
    /\ store = EmptyStore
    /\ call = NoCall
    /\ sqlite_sequence = SequenceAfter(items)
    /\ uuids = 0

StoreAddMember ==
    \E joiningDate \in DateStrings :
        /\ Len(store.members) < MaxStoreRows
        /\ uuids < MaxUuids
        /\ store' = [store EXCEPT !.members =
                        Append(@, [id |-> uuidv4(uuids), joiningDate |-> joiningDate,
                                   leaveDate |-> NoDate])]
        /\ uuids' = uuids + 1
        /\ UNCHANGED <<members, items, now, cards, call, users, user_tokens, requests,
                       sqlite_sequence>>

StoreRemoveMember ==
    \E id \in 1 .. MaxUuids :
        /\ store' = [store EXCEPT !.members = SelectSeq(@, LAMBDA member : member.id # id)]
        /\ UNCHANGED <<members, items, now, cards, call, users, user_tokens, requests,
                       sqlite_sequence, uuids>>

StoreUpdateMemberLeaveDate ==
    \E id \in 1 .. MaxUuids : \E leaveDate \in DateStrings \cup {NoDate} :
        /\ store' = [store EXCEPT !.members =
                        [k \in 1 .. Len(@) |->
                            IF @[k].id = id THEN [@[k] EXCEPT !.leaveDate = leaveDate]
                            ELSE @[k]]]
        /\ UNCHANGED <<members, items, now, cards, call, users, user_tokens, requests,
                       sqlite_sequence, uuids>>

StoreAddItem ==
    \E item \in StoreItemInputs :
        /\ Len(store.items) < MaxRows
        /\ uuids < MaxUuids
        /\ store' = [store EXCEPT !.items =
                        Append(@, SpreadItem([id |-> uuidv4(uuids)], item))]
        /\ uuids' = uuids + 1
        /\ UNCHANGED <<members, items, now, cards, call, users, user_tokens, requests,
                       sqlite_sequence>>

StoreEditItem ==
    \E id \in 1 .. MaxUuids : \E itemUpdate \in StoreItemUpdates :
        /\ store' = [store EXCEPT !.items =
                        [k \in 1 .. Len(@) |->
                            IF @[k].id = id THEN SpreadItem(@[k], itemUpdate) ELSE @[k]]]
        /\ UNCHANGED <<members, items, now, cards, call, users, user_tokens, requests,
                       sqlite_sequence, uuids>>

StoreRemoveItem ==
    \E id \in 1 .. MaxUuids :
        /\ store' = [store EXCEPT !.items = SelectSeq(@, LAMBDA item : item.id # id)]
        /\ UNCHANGED <<members, items, now, cards, call, users, user_tokens, requests,
                       sqlite_sequence, uuids>>

StoreResetStore ==
    /\ store' = EmptyStore
    /\ UNCHANGED <<members, items, now, cards, call, users, user_tokens, requests,
                   sqlite_sequence, uuids>>

NextStore ==
    \/ StoreAddMember
    \/ StoreRemoveMember
    \/ StoreUpdateMemberLeaveDate
    \/ StoreAddItem
    \/ StoreEditItem
    \/ StoreRemoveItem
    \/ StoreResetStore

SpecStore == InitStore /\ [][NextStore]_vars

(***************************************************************************)
(* Shorthands for the properties.                                          *)
(***************************************************************************)
Rendered == cards # NotRendered

MemberIx == 1 .. Len(members)

ItemIx == 1 .. Len(items)

IsLate(m, item) == normalizeDate(m.joined_at) > normalizeDate(item.purchase_date)

\* C1: every reported breakdown has
\* refundable = initialPayment - usage + buyInReceived.
C1_NetBalanceIsShareMinusUsagePlusReceived ==
    Rendered =>
        \A i \in MemberIx : \A k \in ItemIx :
            LET b == cards[i].breakdowns[k]
            IN  ~b.isNull =>
                    b.refundable = RAdd(RSub(b.initialPayment, b.usage), b.buyInReceived)

\* C2: a member M receives a part of the buy-in of a late joiner L exactly
\* when M was present on L's join date and had joined strictly before L,
\* and the part is (valueAt / |present|) / |incumbents|; the reported
\* buyInReceived is the sum of these parts, so a member who joined on the
\* same day as L receives nothing from L.
DayOf(t) == t \div ONE_DAY_MS

JoinDay(m) == DayOf(m.joined_at)

HasLeft(m) == m.leave_date # NoDate

LeaveDay(m) == DayOf(m.leave_date)

PurchaseDay(item) == DayOf(item.purchase_date)

WindowEndDay(item) == PurchaseDay(item) + item.depreciation_days - 1

PresentOn(all, d) ==
    {j \in 1 .. Len(all) :
        JoinDay(all[j]) <= d /\ (HasLeft(all[j]) => LeaveDay(all[j]) >= d)}

Incumbents(all, d) == {j \in PresentOn(all, d) : JoinDay(all[j]) < d}

PerDay(item) == RDiv(Num(item.price), item.depreciation_days)

ValueAt(item, d) ==
    IF d <= PurchaseDay(item) THEN Num(item.price)
    ELSE IF d - PurchaseDay(item) >= item.depreciation_days THEN Num(0)
    ELSE RMul(PerDay(item), item.depreciation_days - (d - PurchaseDay(item)))

LateInWindow(m, item) ==
    JoinDay(m) > PurchaseDay(item) /\ JoinDay(m) <= WindowEndDay(item)

BuyInOf(l, item, all) ==
    RDiv(ValueAt(item, JoinDay(l)), Cardinality(PresentOn(all, JoinDay(l))))

IncumbentShare(i, j, item, all) ==
    IF /\ i # j
       /\ LateInWindow(all[j], item)
       /\ i \in Incumbents(all, JoinDay(all[j]))
    THEN RDiv(BuyInOf(all[j], item, all), Cardinality(Incumbents(all, JoinDay(all[j]))))
    ELSE Num(0)

RECURSIVE SumShares(_, _, _, _)
SumShares(i, j, item, all) ==
    IF j > Len(all) THEN Num(0)
    ELSE RAdd(IncumbentShare(i, j, item, all), SumShares(i, j + 1, item, all))

C2_BuyInSharedOnlyAmongIncumbents ==
    Rendered =>
        \A i \in MemberIx : \A k \in ItemIx :
            LET b == cards[i].breakdowns[k]
            IN  ~b.isNull => b.buyInReceived = SumShares(i, 1, items[k], members)

\* C3: the parts of a late joiner L's buy-in handed to the other members add
\* up to the buy-in L pays, whenever an incumbent is present on L's join date.
RECURSIVE SumReceivedFrom(_, _, _, _)
SumReceivedFrom(j, i, item, all) ==
    IF i > Len(all) THEN Num(0)
    ELSE RAdd(IF i = j THEN Num(0) ELSE buyInReceivedFrom(all[i], all[j], item, all),
              SumReceivedFrom(j, i + 1, item, all))

C3_BuyInIsRedistributed ==
    Rendered =>
        \A j \in MemberIx : \A k \in ItemIx :
            (/\ LateInWindow(members[j], items[k])
             /\ Incumbents(members, JoinDay(members[j])) # {})
            => /\ calculateBuyInForItem(members[j], items[k], members)
                    = BuyInOf(members[j], items[k], members)
               /\ SumReceivedFrom(j, 1, items[k], members)
                    = calculateBuyInForItem(members[j], items[k], members)

\* C4: with no late joiner in the group, the initialPayment fields of the
\* breakdowns reported for an item add up to the item's price (stated for
\* groups in which at least one member has a breakdown for the item).
RECURSIVE SumInitialPayments(_, _)
SumInitialPayments(i, k) ==
    IF i > Len(cards) THEN Num(0)
    ELSE RAdd(IF cards[i].breakdowns[k].isNull THEN Num(0)
              ELSE cards[i].breakdowns[k].initialPayment,
              SumInitialPayments(i + 1, k))

C4_PurchasePriceConserved ==
    Rendered =>
        \A k \in ItemIx :
            (/\ \A i \in MemberIx : JoinDay(members[i]) <= PurchaseDay(items[k])
             /\ \E i \in MemberIx : ~cards[i].breakdowns[k].isNull)
            => SumInitialPayments(1, k) = Num(items[k].price)

\* C5: with the member and item snapshots unchanged, calling the engine again
\* returns what the earlier call returned: the cards on the page equal the
\* result of a call made now.
C5_SameSnapshotsSameResult ==
    Rendered =>
        \A i \in MemberIx :
            /\ cards[i].totals = calculateMemberTotals(members[i], items, members, now)
            /\ \A k \in ItemIx :
                cards[i].breakdowns[k]
                    = calculateItemBreakdown(members[i], items[k], members, now)

\* C6: for a member with a breakdown, usage is the sum, over the calendar
\* days from max(joinDate, purchaseDate) to min(window end, leaveDate if set
\* otherwise today, cutoff if supplied), of perDayValue / |members present
\* that day|, and 0 when there is no such day.
Min(a, b) == IF a <= b THEN a ELSE b

RECURSIVE SumOverDays(_, _, _, _)
SumOverDays(lo, hi, item, all) ==
    IF lo > hi THEN Num(0)
    ELSE RAdd(IF PresentOn(all, lo) # {}
              THEN RDiv(PerDay(item), Cardinality(PresentOn(all, lo)))
              ELSE Num(0),
              SumOverDays(lo + 1, hi, item, all))

Cutoffs == {NoDate} \cup Daytime

CapByCutoff(d, cutoff) == IF cutoff = NoDate THEN d ELSE Min(d, DayOf(cutoff))

FirstDay(m, item) == Max(JoinDay(m), PurchaseDay(item))

LastDayLeaveOrToday(m, item, cutoff, clock) ==
    CapByCutoff(Min(WindowEndDay(item), IF HasLeft(m) THEN LeaveDay(m) ELSE DayOf(clock)),
                cutoff)

C6_UsageUpToLeaveDateOrToday ==
    Rendered =>
        \A i \in MemberIx : \A k \in ItemIx :
            ~cards[i].breakdowns[k].isNull =>
                /\ cards[i].breakdowns[k].usage
                    = SumOverDays(FirstDay(members[i], items[k]),
                                  LastDayLeaveOrToday(members[i], items[k], NoDate, now),
                                  items[k], members)
                /\ \A cutoff \in Cutoffs :
                    calculateUsageForItem(members[i], items[k], members, cutoff, now)
                        = SumOverDays(FirstDay(members[i], items[k]),
                                      LastDayLeaveOrToday(members[i], items[k], cutoff, now),
                                      items[k], members)

\* What the loop of calculateUsageForItem adds up: the last day counted is
\* the earliest of the window end, today, the leave date if set, and the
\* cutoff if supplied.
LastDay(m, item, cutoff, clock) ==
    CapByCutoff(Min(Min(WindowEndDay(item), DayOf(clock)),
                    IF HasLeft(m) THEN LeaveDay(m) ELSE DayOf(clock)),
                cutoff)

UsageIsSumUpToToday ==
    Rendered =>
        \A i \in MemberIx : \A k \in ItemIx : \A cutoff \in Cutoffs :
            calculateUsageForItem(members[i], items[k], members, cutoff, now)
                = SumOverDays(FirstDay(members[i], items[k]),
                              LastDay(members[i], items[k], cutoff, now),
                              items[k], members)

\* C7: usage is capped at the depreciation window: it never exceeds the
\* price, a cutoff at the window end changes nothing, and a leave date or an
\* evaluation date after the window end gives the same usage and netBalance
\* as the window end itself.
WindowEnd(item) == Day(WindowEndDay(item))

SameUsageAndNet(a, b) == a.usage = b.usage /\ a.netBalance = b.netBalance

NoInvolvement(m, item) ==
    \/ HasLeft(m) /\ LeaveDay(m) <= PurchaseDay(item)
    \/ JoinDay(m) > WindowEndDay(item)

ZeroTotals ==
    [totalInitialPayment |-> Num(0), totalUsage |-> Num(0), totalBuyInPaid |-> Num(0),
     totalBuyInReceived |-> Num(0), totalRefundable |-> Num(0)]

C8_NullBreakdownIffNoInvolvement ==
    Rendered =>
        \A i \in MemberIx :
            /\ \A k \in ItemIx :
                cards[i].breakdowns[k].isNull <=> NoInvolvement(members[i], items[k])
            /\ (\A k \in ItemIx : NoInvolvement(members[i], items[k]))
               => cards[i].totals = ZeroTotals

\* One member left on the purchase date itself, another joined the day
\* after the window's last day: both have a null breakdown.
C8_Witness ==
    /\ Rendered
    /\ \E i \in MemberIx : \E j \in MemberIx :
        /\ HasLeft(members[i])
        /\ LeaveDay(members[i]) = PurchaseDay(items[1])
        /\ JoinDay(members[j]) = WindowEndDay(items[1]) + 1
        /\ cards[i].breakdowns[1].isNull
        /\ cards[j].breakdowns[1].isNull
        /\ cards[i].totals = ZeroTotals

\* C9: an original purchaser's initial share is price / |members with
\* joinDate <= purchaseDate|; adding a member who joins after the purchase,
\* or setting, changing or clearing a founding member's leave date, leaves it
\* unchanged.
Founders(all, item) == {j \in 1 .. Len(all) : JoinDay(all[j]) <= PurchaseDay(item)}

LateComers(item) ==
    {[id |-> Len(members) + 1, role |-> "member", joined_at |-> p[1], leave_date |-> p[2]] :
        p \in {q \in MemberDates : DayOf(q[1]) > PurchaseDay(item)}}

LeaveChoices(m) == {NoDate} \cup {Day(d) : d \in JoinDay(m) .. MaxDay}

C9_InitialShareFixedAtPurchase ==
    Rendered =>
        \A k \in ItemIx : \A i \in Founders(members, items[k]) :
            LET item == items[k]
                share == calculateInitialPaymentForItem(members[i], item, members)
            IN  /\ share = RDiv(Num(item.price), Cardinality(Founders(members, item)))
                /\ ~cards[i].breakdowns[k].isNull =>
                        cards[i].breakdowns[k].initialPayment = share
                /\ \A x \in LateComers(item) :
                        calculateInitialPaymentForItem(members[i], item, Append(members, x))
                            = share
                /\ \A f \in Founders(members, item) : \A l \in LeaveChoices(members[f]) :
                        LET changed == [members EXCEPT ![f].leave_date = l]
                        IN  calculateInitialPaymentForItem(changed[i], item, changed) = share

\* Two founders, one of whom has left since: each is reported half the price.
C9_Witness ==
    /\ Rendered
    /\ \E i \in MemberIx : \E j \in MemberIx \ {i} :
        /\ {i, j} \subseteq Founders(members, items[1])
        /\ HasLeft(members[j])
        /\ ~cards[i].breakdowns[1].isNull
        /\ ~cards[j].breakdowns[1].isNull
        /\ cards[i].breakdowns[1].initialPayment = RDiv(Num(items[1].price), 2)
        /\ cards[j].breakdowns[1].initialPayment = RDiv(Num(items[1].price), 2)

\* C10: a late joiner's initial share is valueAt(joinDate) / |members present
\* on joinDate|, the joiner among them; it never exceeds valueAt(joinDate)
\* and is 0 when that value is 0 or less.
C10_LateJoinerBuyIn ==
    Rendered =>
        \A i \in MemberIx : \A k \in ItemIx :
            LET m == members[i]
                item == items[k]
                share == calculateInitialPaymentForItem(m, item, members)
                value == ValueAt(item, JoinDay(m))
                present == PresentOn(members, JoinDay(m))
            IN  JoinDay(m) > PurchaseDay(item) =>
                    /\ i \in present
                    /\ share = IF RLeq(value, Num(0)) THEN Num(0)
                               ELSE RDiv(value, Cardinality(present))
                    /\ RLeq(share, value)
                    /\ getDepreciatedValueAtDate(item, m.joined_at) = value
                    /\ ~cards[i].breakdowns[k].isNull =>
                            /\ cards[i].breakdowns[k].isLateJoiner
                            /\ cards[i].breakdowns[k].initialPayment = share

\* A member joins inside the window while an incumbent is present and is
\* reported half of the item's remaining value as the buy-in.
C10_Witness ==
    /\ Rendered
    /\ \E i \in MemberIx : \E j \in MemberIx \ {i} :
        /\ LateInWindow(members[i], items[1])
        /\ j \in Incumbents(members, JoinDay(members[i]))
        /\ ~cards[i].breakdowns[1].isNull
        /\ cards[i].breakdowns[1].initialPayment
            = RDiv(ValueAt(items[1], JoinDay(members[i])), 2)
        /\ cards[i].breakdowns[1].initialPayment # Num(0)

\* C11: the value of an item is the price on every date up to the purchase
\* date, price / depreciationDays * (depreciationDays - daysElapsed) while
\* daysElapsed < depreciationDays, and 0 on every date from purchaseDate +
\* depreciationDays on; it never rises from one instant to the next and
\* stays within [0, price].  A value is taken to be the number asked for
\* when it is the double nearest to it.
C11_StraightLineDepreciation ==
    call.fn = "getDepreciatedValueAtDate" =>
        LET item == items[1]
            t == call.arg
            value == call.ret
            n == item.depreciation_days
            daysElapsed == DayOf(t) - PurchaseDay(item)
        IN  /\ DayOf(t) <= PurchaseDay(item) => value = DoubleOfInt(item.price)
            /\ (daysElapsed >= 0 /\ daysElapsed < n)
               => value = DoubleOfQuotient(item.price * (n - daysElapsed), n)
            /\ DayOf(t) >= PurchaseDay(item) + n => value = DZero
            /\ DoubleLeq(DZero, value)
            /\ DoubleLeq(value, DoubleOfInt(item.price))
            /\ DoubleLeq(getDepreciatedValueAtDateDouble(item, t + 1), value)

\* What the function does ensure: the price before the purchase day, 0
\* from the end of the period on, a value within [0, price] that never
\* rises from one instant to the next.
DepreciatedValueBoundedNeverRises ==
    call.fn = "getDepreciatedValueAtDate" =>
        LET item == items[1]
            t == call.arg
        IN  /\ DayOf(t) < PurchaseDay(item) => call.ret = DoubleOfInt(item.price)
            /\ DayOf(t) >= PurchaseDay(item) + item.depreciation_days => call.ret = DZero
            /\ DoubleLeq(DZero, call.ret)
            /\ DoubleLeq(call.ret, DoubleOfInt(item.price))
            /\ DoubleLeq(getDepreciatedValueAtDateDouble(item, t + 1), call.ret)

\* C12: usage is never negative, whatever the join date, leave date (also
\* one before the join date),
\* purchase date, depreciation period, price (zero included) and cutoff; it
\* is 0 for an item bought after today, for a member who joined after the
\* window's last day, and for a member with no day of presence in the window.
\* The member's own leave date, and every leave date before the join date
\* (leave dates from the join date on are among the stored ones).
LeaveOrEarlier(m) == {m.leave_date} \cup {Day(d) : d \in 0 .. (JoinDay(m) - 1)}

Prices(item) == {0, item.price}

C12_UsageNeverNegative ==
    Rendered =>
        \A i \in MemberIx : \A k \in ItemIx :
            /\ ~cards[i].breakdowns[k].isNull => RLeq(Num(0), cards[i].breakdowns[k].usage)
            /\ \A l \in LeaveOrEarlier(members[i]) :
               \A p \in Prices(items[k]) : \A cutoff \in Cutoffs :
                LET all == [members EXCEPT ![i].leave_date = l]
                    m == all[i]
                    item == [items[k] EXCEPT !.price = p]
                    usage == calculateUsageForItem(m, item, all, cutoff, now)
                IN  /\ RLeq(Num(0), usage)
                    /\ usage[2] > 0
                    /\ DayOf(now) < PurchaseDay(item) => usage = Num(0)
                    /\ JoinDay(m) > WindowEndDay(item) => usage = Num(0)
                    /\ (HasLeft(m) /\ LeaveDay(m) < FirstDay(m, item)) => usage = Num(0)
                    /\ p = 0 => usage = Num(0)

\* An item the page shows before its purchase date: a founding member's
\* breakdown is there and reports a usage of 0.
C12_Witness ==
    /\ Rendered
    /\ DayOf(now) < PurchaseDay(items[1])
    /\ \E i \in MemberIx :
        /\ JoinDay(members[i]) < PurchaseDay(items[1])
        /\ ~HasLeft(members[i])
        /\ ~cards[i].breakdowns[1].isNull
        /\ cards[i].breakdowns[1].usage = Num(0)
        /\ cards[i].breakdowns[1].initialPayment # Num(0)

\* C13: a member whose join date is the purchase date, at any time of that
\* day, is an original purchaser: not a late joiner, no buy-in paid, counted
\* in the purchase-time split, with initialPayment = price / |members with
\* joinDate <= purchaseDate|.
TimesOfDay == 0 .. (ONE_DAY_MS - 1)

C13_JoinOnPurchaseDayIsFounder ==
    Rendered =>
        \A i \in MemberIx : \A k \in ItemIx :
            JoinDay(members[i]) = PurchaseDay(items[k]) =>
                /\ i \in Founders(members, items[k])
                /\ ~cards[i].breakdowns[k].isNull =>
                    /\ ~cards[i].breakdowns[k].isLateJoiner
                    /\ cards[i].breakdowns[k].buyInPaid = Num(0)
                    /\ cards[i].breakdowns[k].initialPayment
                        = RDiv(Num(items[k].price), Cardinality(Founders(members, items[k])))
                /\ \A t \in TimesOfDay :
                    LET all == [members EXCEPT ![i].joined_at = items[k].purchase_date + t]
                        bal == calculateMemberBalanceForItem(all[i], items[k], all, now)
                        b == calculateItemBreakdown(all[i], items[k], all, now)
                    IN  /\ bal.buyInPaid = Num(0)
                        /\ bal.initialPayment
                            = RDiv(Num(items[k].price), Cardinality(Founders(all, items[k])))
                        /\ \A j \in Founders(all, items[k]) \ {i} :
                            calculateInitialPaymentForItem(all[j], items[k], all)
                                = bal.initialPayment
                        /\ ~b.isNull => ~b.isLateJoiner

\* One member joined before the purchase, another on the purchase date
\* itself: the second is shown as an original purchaser with half the price.
C13_Witness ==
    /\ Rendered
    /\ \E i \in MemberIx : \E j \in MemberIx \ {i} :
        /\ JoinDay(members[i]) = PurchaseDay(items[1])
        /\ JoinDay(members[j]) < PurchaseDay(items[1])
        /\ ~cards[i].breakdowns[1].isNull
        /\ ~cards[i].breakdowns[1].isLateJoiner
        /\ cards[i].breakdowns[1].buyInPaid = Num(0)
        /\ cards[i].breakdowns[1].initialPayment = RDiv(Num(items[1].price), 2)

\* C15: no division of the engine has a zero divisor.  Every number the
\* engine returns is finite, for the stored dates and for any leave date put
\* on a member (also one before the join date); the depreciation period is
\* at least 1; on every day the usage loop visits somebody is present; a
\* non-zero buy-in has somebody present on the join date; an original
\* purchaser's split counts at least the purchaser; and a share of a buy-in
\* is handed out only where an incumbent is present.
Finite(a) == a[2] > 0

FiniteBalance(b) ==
    /\ Finite(b.initialPayment)
    /\ Finite(b.usage)
    /\ Finite(b.buyInPaid)
    /\ Finite(b.buyInReceived)
    /\ Finite(b.netBalance)

FiniteTotals(t) ==
    /\ Finite(t.totalInitialPayment)
    /\ Finite(t.totalUsage)
    /\ Finite(t.totalBuyInPaid)
    /\ Finite(t.totalBuyInReceived)
    /\ Finite(t.totalRefundable)

\* The leave dates before the join date.
LeaveBeforeJoin(m) == {Day(d) : d \in 0 .. (JoinDay(m) - 1)}

\* Every quotient computed for member j of the list all is finite, and
\* every divisor it meets is at least 1.
QuotientsDefined(j, item, all, clock) ==
    LET m == all[j]
        buyIn == calculateBuyInForItem(m, item, all)
    IN  /\ FiniteBalance(calculateMemberBalanceForItem(m, item, all, clock))
        /\ Finite(buyIn)
        /\ buyIn # Num(0) => Len(getMembersPresentOnDay(all, m.joined_at)) >= 1
        /\ j \in Founders(all, item)
           => Finite(calculateInitialPaymentForItem(m, item, all))
        /\ \A d \in FirstDay(m, item) .. LastDay(m, item, NoDate, clock) :
            Len(getMembersPresentOnDay(all, Day(d))) >= 1
        /\ \A x \in 1 .. Len(all) :
            buyInReceivedFrom(m, all[x], item, all) # Num(0)
            => Incumbents(all, JoinDay(all[x])) # {}

C15_NoDivisionByZero ==
    Rendered =>
        \A k \in ItemIx :
            /\ getDepreciationDays(items[k]) >= 1
            /\ \A i \in MemberIx :
                /\ FiniteTotals(cards[i].totals)
                /\ ~cards[i].breakdowns[k].isNull =>
                    /\ Finite(cards[i].breakdowns[k].initialPayment)
                    /\ Finite(cards[i].breakdowns[k].usage)
                    /\ Finite(cards[i].breakdowns[k].buyInPaid)
                    /\ Finite(cards[i].breakdowns[k].buyInReceived)
                    /\ Finite(cards[i].breakdowns[k].refundable)
                /\ QuotientsDefined(i, items[k], members, now)
                /\ \A l \in LeaveBeforeJoin(members[i]) :
                    LET all == [members EXCEPT ![i].leave_date = l]
                    IN  \A j \in MemberIx : QuotientsDefined(j, items[k], all, now)

\* A member alone in the group, seen after the window's end: every divisor
\* is 1, the initial share and the usage are both the whole price.
C15_Witness ==
    /\ Rendered
    /\ Len(members) = 1
    /\ ~HasLeft(members[1])
    /\ JoinDay(members[1]) <= PurchaseDay(items[1])
    /\ DayOf(now) > WindowEndDay(items[1])
    /\ ~cards[1].breakdowns[1].isNull
    /\ cards[1].breakdowns[1].initialPayment = Num(items[1].price)
    /\ cards[1].breakdowns[1].usage = Num(items[1].price)
    /\ cards[1].breakdowns[1].refundable = Num(0)

\* C14: each of the five totals of a member is the sum, over the items with
\* a non-null breakdown, of that field of the item's breakdown; an item with
\* a null breakdown adds nothing; with no items every total is 0; and
\* calculateTotalRefundForMember is the total of the refundable fields.
\* The totals are the sums of the breakdowns computed from the same readings
\* of the clock, also when the clock advances between two items.
RECURSIVE SumOfBreakdowns(_, _)
SumOfBreakdowns(breakdowns, k) ==
    IF k > Len(breakdowns) THEN ZeroTotals
    ELSE LET breakdown == breakdowns[k]
             rest == SumOfBreakdowns(breakdowns, k + 1)
             Of(field) == IF breakdown.isNull THEN Num(0) ELSE breakdown[field]
         IN  [totalInitialPayment |-> RAdd(Of("initialPayment"), rest.totalInitialPayment),
              totalUsage |-> RAdd(Of("usage"), rest.totalUsage),
              totalBuyInPaid |-> RAdd(Of("buyInPaid"), rest.totalBuyInPaid),
              totalBuyInReceived |-> RAdd(Of("buyInReceived"), rest.totalBuyInReceived),
              totalRefundable |-> RAdd(Of("refundable"), rest.totalRefundable)]

C14_TotalsAreSumsOverItems ==
    Rendered =>
        \A i \in MemberIx :
            LET t == cards[i].totals
                b == cards[i].breakdowns
            IN  /\ t = SumOfBreakdowns(b, 1)
                /\ calculateTotalRefundForMember(members[i], items, members, now)
                    = SumOfBreakdowns(b, 1).totalRefundable
                /\ items = <<>> => t = ZeroTotals
                /\ \A cut \in 1 .. Len(items) :
                    LET clocks == [k \in 1 .. Len(items) |-> ReadAt(k, cut, now)]
                    IN  calculateMemberTotalsReading(members[i], items, members, clocks)
                          = SumOfBreakdowns(
                                [k \in 1 .. Len(items) |->
                                    calculateItemBreakdown(members[i], items[k], members,
                                                           clocks[k])], 1)
                /\ \A k \in ItemIx :
                    b[k].isNull =>
                        calculateMemberTotals(members[i], items, members, now)
                            = calculateMemberTotals(members[i],
                                  SelectSeq(items, LAMBDA it : it.id # items[k].id), members, now)

\* Two items, one with a null breakdown for a member who joined after its
\* window: the member's totals are the other item's breakdown alone.  And a
\* member with a breakdown for both items is shown the sum of the two usages.
C14_Witness ==
    /\ Rendered
    /\ Len(items) = 2
    /\ \E i \in MemberIx :
        /\ cards[i].breakdowns[1].isNull
        /\ ~cards[i].breakdowns[2].isNull
        /\ cards[i].breakdowns[2].usage # Num(0)
        /\ cards[i].totals.totalUsage = cards[i].breakdowns[2].usage
        /\ cards[i].totals.totalBuyInPaid = cards[i].breakdowns[2].buyInPaid
        /\ cards[i].totals.totalBuyInPaid # Num(0)
    /\ \E j \in MemberIx :
        /\ ~cards[j].breakdowns[1].isNull
        /\ ~cards[j].breakdowns[2].isNull
        /\ cards[j].totals.totalUsage
            = RAdd(cards[j].breakdowns[1].usage, cards[j].breakdowns[2].usage)
        /\ cards[j].breakdowns[1].usage # Num(0)
        /\ cards[j].breakdowns[2].usage # Num(0)

\* C19: for a whole number of years y >= 1, convertYearsToDays(y) = 365 * y
\* and convertDaysToYears gives y back from it; and both conversions return
\* at least 1 for every number passed.
WholeYears(a) == IsInteger(a) /\ a[1] >= 1

C19_YearDayRoundTrip ==
    /\ call.fn = "convertYearsToDays" =>
        /\ RLeq(Num(1), call.ret)
        /\ WholeYears(call.arg) =>
            /\ call.ret = Num(DAYS_PER_YEAR * call.arg[1])
            /\ convertDaysToYears(call.ret) = call.arg
    /\ call.fn = "convertDaysToYears" =>
        /\ RLeq(Num(1), call.ret)
        /\ (\E y \in 1 .. (MaxYears + 1) : call.arg = Num(DAYS_PER_YEAR * y))
            => RMul(call.ret, DAYS_PER_YEAR) = call.arg
    /\ \A x \in ConvertInputs :
        /\ RLeq(Num(1), convertYearsToDays(x))
        /\ RLeq(Num(1), convertDaysToYears(x))
        /\ IsInteger(convertYearsToDays(x))
        /\ IsInteger(convertDaysToYears(x))

\* Two years were converted to 730 days and these back to 2 years.
C19_Witness ==
    /\ call.fn = "convertDaysToYears"
    /\ call.arg = Num(2 * DAYS_PER_YEAR)
    /\ call.ret = Num(2)

\* C20: normalizeIncomingItemPayload returns as depreciationDays the first of
\* period_days, depreciationDays, depreciation_days that is given (neither
\* absent nor null), as periodType the first of period_type, periodType,
\* depreciation_period_type that is given and 'days' when none is, and name,
\* price and purchaseDate as they came.
Given(v) == v.t \notin {"undefined", "null"}

RECURSIVE FirstGiven(_, _)
FirstGiven(vs, default) ==
    IF vs = <<>> THEN default
    ELSE IF Given(Head(vs)) THEN Head(vs)
    ELSE FirstGiven(Tail(vs), default)

C20_NormalizeTakesFirstGiven ==
    call.fn = "normalizeIncomingItemPayload" =>
        LET raw == call.arg
            r == call.ret
            periods == <<raw.period_days, raw.depreciationDays, raw.depreciation_days>>
            types == <<raw.period_type, raw.periodType, raw.depreciation_period_type>>
        IN  /\ (\E x \in 1 .. 3 : Given(periods[x]))
               => r.depreciationDays = FirstGiven(periods, JsUndefined)
            /\ (\A x \in 1 .. 3 : ~Given(periods[x])) => ~Given(r.depreciationDays)
            /\ r.periodType = FirstGiven(types, JsStr("days"))
            /\ r.name = raw.name
            /\ r.price = raw.price
            /\ r.purchaseDate = raw.purchaseDate

\* A legacy body: period_days is null, depreciationDays and depreciation_days
\* are both given and no type key is: the result carries depreciationDays
\* and the type 'days'.
C20_Witness ==
    /\ call.fn = "normalizeIncomingItemPayload"
    /\ call.arg.period_days = JsNull
    /\ Given(call.arg.depreciationDays)
    /\ Given(call.arg.depreciation_days)
    /\ call.arg.depreciationDays # call.arg.depreciation_days
    /\ ~Given(call.arg.period_type)
    /\ ~Given(call.arg.periodType)
    /\ ~Given(call.arg.depreciation_period_type)
    /\ call.ret.depreciationDays = call.arg.depreciationDays
    /\ call.ret.periodType = JsStr("days")
    /\ call.ret.name = JsStr("Fridge")

\* C16: an item the form submits with period type 'years' and value N is
\* stored with depreciation_days = round(N * 365), one submitted with type
\* 'days' and value D with depreciation_days = D, and getDepreciationDays
\* gives the engine that number.
\* The row of shared_items with the id the request answered.
StoredItem(id) == items[CHOOSE k \in ItemIx : items[k].id = id]

SubmittedDays(asked) ==
    IF asked.periodType = JsStr("years")
    THEN SqlNumber(MathRound(RMul(asked.depreciationDays.n, DAYS_PER_YEAR)))
    ELSE SqlNumber(asked.depreciationDays.n)

C16_YearsConvertedOnce ==
    (call.fn = "ItemForm.onSubmit" /\ call.ret.status = 200) =>
        /\ \E k \in ItemIx : items[k].id = call.ret.id
        /\ StoredItem(call.ret.id).depreciation_days = SubmittedDays(call.arg)
        /\ getDepreciationDays(StoredItem(call.ret.id)) = SubmittedDays(call.arg)

\* What the code stores for an item submitted in days.
DaysStoredAsSubmitted ==
    (/\ call.fn = "ItemForm.onSubmit"
     /\ call.ret.status = 200
     /\ call.arg.periodType = JsStr("days")) =>
        /\ StoredItem(call.ret.id).depreciation_days = SubmittedDays(call.arg)
        /\ getDepreciationDays(StoredItem(call.ret.id)) = SubmittedDays(call.arg)

\* What the code stores for an item submitted in years: the form has
\* multiplied by 365 and createItem or updateItem multiplies once more.
YearsStoredMultipliedTwice ==
    (/\ call.fn = "ItemForm.onSubmit"
     /\ call.ret.status = 200
     /\ call.arg.periodType = JsStr("years")) =>
        StoredItem(call.ret.id).depreciation_days
            = DAYS_PER_YEAR * DAYS_PER_YEAR * call.arg.depreciationDays.n[1]

\* C18: after any sequence of item creations, updates and deletions every stored
\* depreciation_days is a whole number >= 1 and so is getDepreciationDays of
\* every stored item; createItem and updateItem store a whole number >= 1
\* for every depreciation value (0, negative, a fraction, null or missing
\* included) and either period type; and the engine and the local store use
\* a length >= 1 also for items without depreciation_days.
WholeAtLeastOne(x) == x \in Int /\ x >= 1

OptionalYears == {NoDate} \cup (0 .. MaxYears)

OptionalDays == {NoDate} \cup (0 .. MaxDepDays)

C18_StoredDaysAtLeastOne ==
    /\ \A k \in ItemIx :
        /\ WholeAtLeastOne(items[k].depreciation_days)
        /\ WholeAtLeastOne(getDepreciationDays(items[k]))
    /\ \A v \in ApiPeriodValues : \A ty \in {"days", "years"} :
        LET days == depreciationDaysOf(v, ty)
            row == ItemRow(1, JsNum(Num(MaxPrice)), JsDate(1), v, ty)
        IN  /\ IsInteger(days)
            /\ days[1] >= 1
            /\ WholeAtLeastOne(row.depreciation_days)
            /\ WholeAtLeastOne(getDepreciationDays(row))
            /\ \A k \in ItemIx :
                LET updated == updateItem(items, k, JsNum(Num(MaxPrice)), JsDate(1), v, ty)
                IN  WholeAtLeastOne(updated[k].depreciation_days)
    /\ \A d \in OptionalDays : \A y \in OptionalYears :
        /\ WholeAtLeastOne(getDepreciationDays(
               [id |-> 1, price |-> MaxPrice, purchase_date |-> Day(1),
                depreciation_days |-> d, depreciation_years |-> y]))
        /\ WholeAtLeastOne(storeDepreciationDays(
               [depreciationDays |-> d, depreciationYears |-> y]))

\* An item is stored with one day of depreciation, and a later request
\* asking for 0 days has been turned down, leaving the item as it was.
C18_Witness ==
    /\ call.fn \in {"POST", "PUT"}
    /\ call.arg.depreciationDays = JsNum(Num(0))
    /\ call.ret.status = 400
    /\ \E k \in ItemIx :
        /\ items[k].depreciation_days = 1
        /\ getDepreciationDays(items[k]) = 1

\* C17: after any sequence of member operations, every row of group_members
\* and every member of the local store that has a leave date has
\* leaveDate >= joinDate, as calendar dates.
C17_LeaveNeverBeforeJoin ==
    /\ \A i \in MemberIx :
        members[i].leave_date # NoDate
        => normalizeDate(members[i].leave_date) >= normalizeDate(members[i].joined_at)
    /\ \A i \in 1 .. Len(store.members) :
        store.members[i].leaveDate # NoDate
        => normalizeDate(store.members[i].leaveDate)
            >= normalizeDate(store.members[i].joiningDate)

\* The same for the server's table alone and for the local store alone.
ServerLeaveNeverBeforeJoin ==
    \A i \in MemberIx :
        members[i].leave_date # NoDate
        => normalizeDate(members[i].leave_date) >= normalizeDate(members[i].joined_at)

StoreLeaveNeverBeforeJoin ==
    \A i \in 1 .. Len(store.members) :
        store.members[i].leaveDate # NoDate
        => normalizeDate(store.members[i].leaveDate)
            >= normalizeDate(store.members[i].joiningDate)

(***************************************************************************)
(* C21: the period the edit form infers from a stored item.                *)
(***************************************************************************)
\* The stored explicit type: the first of period_type and
\* depreciation_period_type that is neither absent nor null; an empty string
\* names no type.
StoredType(existingItem) ==
    FirstGiven(<<existingItem.period_type, existingItem.depreciation_period_type>>,
               JsUndefined)

HasNumericDays(existingItem) ==
    \/ IsNumeric(existingItem.period_days)
    \/ Nullish(existingItem.period_days) /\ IsNumeric(existingItem.depreciation_days)

ExpectedPeriodType(existingItem) ==
    IF \/ StoredType(existingItem) = JsStr("years")
       \/ /\ StoredType(existingItem) \in Absent \cup {JsStr("")}
          /\ IsNumeric(existingItem.depreciation_years)
          /\ ~HasNumericDays(existingItem)
    THEN "years" ELSE "days"

\* The item carries depreciation_years, a number, and no other key.
OnlyYears(existingItem) ==
    /\ existingItem.period_type = JsUndefined
    /\ existingItem.depreciation_period_type = JsUndefined
    /\ existingItem.period_days = JsUndefined
    /\ existingItem.depreciation_days = JsUndefined
    /\ IsNumeric(existingItem.depreciation_years)

Inferred == call.fn = "inferEditFormPeriod"

\* A finite whole number >= 1.
IntegerAtLeastOne(a) == a[2] = 1 /\ a[1] >= 1

\* a < b for finite numbers.
RLess(a, b) == RLeq(a, b) /\ a # b

\* C21 as stated: the type is 'years' exactly when the stored explicit type
\* is 'years', or none is stored and a numeric years value exists without a
\* numeric days value; an item carrying only depreciation_years = y yields
\* ('years', y); the value is always a whole number >= 1.
C21_OnlyYearsYieldsThoseYears ==
    Inferred =>
        /\ call.ret.periodType = ExpectedPeriodType(call.arg)
        /\ OnlyYears(call.arg) =>
              call.ret = [periodType |-> "years",
                          periodValue |-> call.arg.depreciation_years.n]
        /\ IntegerAtLeastOne(call.ret.periodValue)

\* C21 as amended: the same, but an item carrying only depreciation_years = y
\* yields ('years', max(1, round(y))), which is y itself when y is a whole
\* number >= 1.
C21_OnlyYearsYieldsRoundedYears ==
    Inferred =>
        /\ call.ret.periodType = ExpectedPeriodType(call.arg)
        /\ OnlyYears(call.arg) =>
              LET y == call.arg.depreciation_years.n IN
              /\ call.ret.periodType = "years"
              /\ RLess(y, Rat(1, 2)) => call.ret.periodValue = Num(1)
              /\ \A v \in {Num(k) : k \in 1 .. (MaxYears + 1)} :
                    (RLeq(RSub(v, Rat(1, 2)), y) /\ RLess(y, RAdd(v, Rat(1, 2))))
                        => call.ret.periodValue = v
              /\ IntegerAtLeastOne(y) => call.ret.periodValue = y
        /\ IntegerAtLeastOne(call.ret.periodValue)

\* An item carrying only depreciation_years = 3/2 has been inferred as two
\* years.
C21_Witness ==
    /\ Inferred
    /\ OnlyYears(call.arg)
    /\ call.arg.depreciation_years.n = Rat(3, 2)
    /\ call.ret = [periodType |-> "years", periodValue |-> Num(2)]


(***************************************************************************)
(* C22: nobody uses more than they paid plus received.                     *)
(***************************************************************************)
\* C22: for every member with involvement in an item, the net balance
\* calculateMemberBalanceForItem computes (the breakdown's refundable) is
\* never negative.
C22_NetBalanceNeverNegative ==
    Rendered =>
        \A i \in MemberIx : \A k \in ItemIx :
            ~cards[i].breakdowns[k].isNull =>
                /\ cards[i].breakdowns[k].refundable
                       = calculateMemberBalanceForItem(members[i], items[k],
                                                       members, now).netBalance
                /\ RLeq(Num(0), cards[i].breakdowns[k].refundable)

\* The same for members present at the purchase only, who pay no buy-in: a
\* founder who stays after a co-founder left is charged the whole of each
\* later day, so this fails as well.
FounderNetBalanceNeverNegative ==
    Rendered =>
        \A i \in MemberIx : \A k \in ItemIx :
            (~cards[i].breakdowns[k].isNull /\ ~IsLate(members[i], items[k])) =>
                RLeq(Num(0), cards[i].breakdowns[k].refundable)


(***************************************************************************)
(* C23: each day's cost is fully allocated.                                *)
(***************************************************************************)
RECURSIVE SumReportedUsage(_, _)
\* The usage of item k summed over members i.. with a breakdown.
SumReportedUsage(i, k) ==
    IF i > Len(members) THEN Num(0)
    ELSE RAdd(IF cards[i].breakdowns[k].isNull THEN Num(0)
              ELSE cards[i].breakdowns[k].usage,
              SumReportedUsage(i + 1, k))

\* The days of the item's window up to the evaluation date.
ChargedDays(item, clock) ==
    PurchaseDay(item) .. Min(WindowEndDay(item), DayOf(clock))

OccupiedDays(item, all, clock) ==
    {d \in ChargedDays(item, clock) : PresentOn(all, d) # {}}

UsageFullyAllocated(k) ==
    /\ SumReportedUsage(1, k)
           = RMul(PerDay(items[k]), Cardinality(OccupiedDays(items[k], members, now)))
    /\ \A d \in PurchaseDay(items[k]) .. WindowEndDay(items[k]) :
           \A j \in PresentOn(members, d) : ~cards[j].breakdowns[k].isNull
    /\ RLeq(SumReportedUsage(1, k), Num(items[k].price))

\* C23: for each item, the usage summed over the members with a breakdown is
\* perDayValue times the number of days of [purchase, min(window end,
\* today)] with at least one member present; every member counted present
\* on a day of the window has a breakdown; total usage never exceeds price.
C23_DailyCostFullyAllocated ==
    Rendered => \A k \in ItemIx : UsageFullyAllocated(k)

\* Somebody left on the very day of the purchase.
LeftOnPurchaseDay(k) ==
    \E j \in MemberIx :
        /\ HasLeft(members[j])
        /\ LeaveDay(members[j]) = PurchaseDay(items[k])
        /\ JoinDay(members[j]) <= PurchaseDay(items[k])

\* Without a member leaving on the purchase day the allocation is complete.
AllocatedUnlessLeftOnPurchaseDay ==
    Rendered => \A k \in ItemIx : ~LeftOnPurchaseDay(k) => UsageFullyAllocated(k)


(***************************************************************************)
(* C24: item updates and deletions are confined to the caller's groups.    *)
(***************************************************************************)
\* Item `id` is in the table before and after the step, unchanged.
ItemUntouched(id) ==
    \E k \in 1 .. Len(items) : \E n \in 1 .. Len(items') :
        items[k].id = id /\ items'[n] = items[k]

\* The request of the user for the group and item of the path touches
\* only items of the user's groups, and none when the item is of another
\* group than the path's.
ConfinedToCallersGroups(userId, groupId, itemId) ==
    \A k \in 1 .. Len(items) :
        /\ ~ItemUntouched(items[k].id) => isUserInGroup(members, userId, items[k].group_id)
        /\ ( /\ itemId = items[k].id
             /\ isUserInGroup(members, userId, groupId)
             /\ groupId # items[k].group_id ) => items' = items

\* C24: a PUT or DELETE item request modifies or deletes an item only if the
\* caller is a member of the group the item belongs to; a request whose
\* path groupId is a group of the caller but whose itemId belongs to
\* another group changes nothing.
C24_ItemChangesConfinedToCallersGroups ==
    [][call'.fn \in {"PUT", "DELETE"} =>
          ConfinedToCallersGroups(call'.arg.userId, call'.arg.groupId, call'.arg.itemId)
      ]_vars

\* The first half alone: an item is modified or deleted only on a request
\* of a member of the item's group.
ItemChangesNeedMembershipOfItemGroup ==
    [][call'.fn \in {"PUT", "DELETE"} =>
          \A k \in 1 .. Len(items) :
              ~ItemUntouched(items[k].id)
                  => isUserInGroup(members, call'.arg.userId, items[k].group_id)
      ]_vars

\* What the routes do ensure: an item is updated or deleted only on a
\* request of a member of the group named in the path.
ItemChangesNeedMembershipOfPathGroup ==
    [][(call'.fn \in {"PUT", "DELETE"} /\ items' # items)
          => isUserInGroup(members, call'.arg.userId, call'.arg.groupId)]_vars

(***************************************************************************)
(* C25: an invite token is single-use, also among concurrent requests.     *)
(***************************************************************************)
\* The requests that have set the password (and go on to get a session).
Accepted(token) ==
    {r \in RequestIds :
        /\ requests[r].pc \in {"session", "done"}
        /\ requests[r].token = token
        /\ requests[r].pc = "done" => requests[r].status = 200}

\* C25: among the accept-invite requests carrying the same token, however
\* interleaved at their awaits, at most one sets the password and gets a
\* session; every other one is answered 'Token already used'.
C25_TokenIsSingleUse ==
    \A token \in {"t1"} :
        /\ Cardinality(Accepted(token)) <= 1
        /\ \A r \in RequestIds :
              ( /\ Accepted(token) # {}
                /\ r \notin Accepted(token)
                /\ requests[r].pc = "done"
                /\ requests[r].token = token )
              => requests[r].error = "Token already used"

\* One after the other the token is single-use: a handler that reads the
\* token row after the token was marked used answers 'Token already used'.
RefusedOnceMarkedUsed ==
    [][\A r \in RequestIds :
          ( /\ requests[r].pc = "json"
            /\ getUserToken(user_tokens, requests[r].token).used # 0
            /\ requests'[r] # requests[r] )
          => requests'[r].pc = "done" /\ requests'[r].error = "Token already used"
      ]_vars


(***************************************************************************)
(* C26: only a group owner can change another member's dates.              *)
(***************************************************************************)
NamesMember(body) == body.memberId \notin {NotGiven, NoDate}

\* A body whose keys have the types of a members PATCH: a join date that
\* is a string if given, a member id that is a number if given, and a
\* leave date given or not.
PatchBodyIsTyped(body) == body.joinedAt # NoDate /\ body.memberId # NoDate

\* The caller of request r owns the group of its path.
CallerIsOwner(r) ==
    getUserRoleInGroup(members, requests[r].userId, requests[r].groupId) = "owner"

\* Row `id` is a row of the group of the path of request r.
MemberOfPathGroup(r, id) ==
    \E k \in 1 .. Len(members) :
        members[k].id = id /\ members[k].group_id = requests[r].groupId

RowBefore(id) == members[CHOOSE k \in 1 .. Len(members) : members[k].id = id]

RowAfter(id) == members'[CHOOSE k \in 1 .. Len(members') : members'[k].id = id]

\* A step in which the PATCH of request r is answered on its body.
PatchAnswered(r) ==
    /\ requests[r].pc = "json"
    /\ requests[r].action = "PATCH"
    /\ requests'[r] = Idle

\* C26: a members PATCH that names a memberId is applied only when the
\* caller is the owner of the path's group and memberId is a member of that
\* group; otherwise it is answered 403 (not owner) or 404 (member not in
\* group) and no row changes.  A PATCH without memberId changes no row but
\* the caller's own membership row.
C26_OnlyOwnerChangesOtherMembers ==
    [][\A r \in 1 .. MaxInFlight : PatchAnswered(r) => \A body \in PatchBodies :
          (PatchReadsBodyGiven(r, body) /\ PatchBodyIsTyped(body)) =>
              /\ (NamesMember(body)
                     /\ ~(CallerIsOwner(r) /\ MemberOfPathGroup(r, body.memberId)))
                 => /\ call'.ret.status = IF CallerIsOwner(r) THEN 404 ELSE 403
                    /\ members' = members
              /\ ~NamesMember(body) =>
                    \A k \in 1 .. Len(members) :
                        members'[k] # members[k]
                            => /\ members[k].user_id = requests[r].userId
                               /\ members[k].group_id = requests[r].groupId
      ]_vars

\* What the handler does ensure: a PATCH changes a row other than the
\* caller's own only for the owner of the path's group naming a member of
\* that group, and adds or removes none.
PatchOfOthersNeedsOwner ==
    [][\A r \in 1 .. MaxInFlight : PatchAnswered(r) => \A body \in PatchBodies :
          PatchReadsBodyGiven(r, body) =>
              /\ Len(members') = Len(members)
              /\ \A k \in 1 .. Len(members) :
                    (members'[k] # members[k] /\ members[k].id # requests[r].membership)
                        => /\ CallerIsOwner(r)
                           /\ members[k].id = body.memberId
                           /\ members[k].group_id = requests[r].groupId
      ]_vars

\* The owner's PATCH with a leave date naming a member of the group is
\* applied to that member's row and to no other.
OwnerPatchIsApplied ==
    [][\A r \in 1 .. MaxInFlight : PatchAnswered(r) => \A body \in PatchBodies :
          ( /\ PatchReadsBodyGiven(r, body)
            /\ UpdateMemberSchemaAccepts(body)
            /\ NamesMember(body)
            /\ CallerIsOwner(r)
            /\ MemberOfPathGroup(r, body.memberId) )
          => /\ call'.ret.status = 200
             /\ RowAfter(body.memberId).leave_date = body.leaveDate
             /\ body.joinedAt # NotGiven => RowAfter(body.memberId).joined_at = body.joinedAt
             /\ \A k \in 1 .. Len(members) :
                   members[k].id # body.memberId => members'[k] = members[k]
      ]_vars

(***************************************************************************)
(* C27: the PATCH updates the leave date and the join date independently.  *)
(***************************************************************************)
\* C27: a PATCH by the owner carrying joinedAt and memberId but no leaveDate
\* succeeds, sets the member's joined_at and leaves the leave date as it
\* was; one carrying leaveDate only leaves joined_at as it was.
C27_DatesUpdatedIndependently ==
    [][\A r \in 1 .. MaxInFlight : PatchAnswered(r) => \A body \in PatchBodies :
          (PatchReadsBodyGiven(r, body) /\ CallerIsOwner(r)) =>
              /\ ( /\ NamesMember(body)
                   /\ MemberOfPathGroup(r, body.memberId)
                   /\ body.joinedAt \notin {NotGiven, NoDate}
                   /\ body.leaveDate = NotGiven )
                 => /\ call'.ret.status = 200
                    /\ RowAfter(body.memberId).joined_at = body.joinedAt
                    /\ RowAfter(body.memberId).leave_date
                          = RowBefore(body.memberId).leave_date
              /\ ( /\ body.memberId # NoDate
                   /\ NamesMember(body) => MemberOfPathGroup(r, body.memberId)
                   /\ body.joinedAt = NotGiven
                   /\ body.leaveDate # NotGiven )
                 => /\ call'.ret.status = 200
                    /\ \A k \in 1 .. Len(members) :
                          members'[k].joined_at = members[k].joined_at
      ]_vars

\* The half that holds: a PATCH carrying leaveDate only leaves every
\* joined_at as it was.
LeaveDateOnlyKeepsJoinedAt ==
    [][\A r \in 1 .. MaxInFlight : PatchAnswered(r) => \A body \in PatchBodies :
          (PatchReadsBodyGiven(r, body) /\ body.joinedAt = NotGiven) =>
              \A k \in 1 .. Len(members) : members'[k].joined_at = members[k].joined_at
      ]_vars

(***************************************************************************)
(* C28: the store's refund never grows with the leave date.                *)
(***************************************************************************)
RefundComputed == call.fn = "calculateRefundForItem"

\* The refund of member i for item k had the member left on `leaveDate`.
RefundIfLeftOn(i, k, leaveDate) ==
    LET all == [store.members EXCEPT ![i].leaveDate = leaveDate]
    IN  calculateRefundForItem(all[i], store.items[k], all)

EqualShare(k) ==
    RDiv(Num(store.items[k].price),
         Len(SelectSeq(store.members,
                       LAMBDA m : m.joiningDate <= store.items[k].purchaseDate)))

\* C28: with all other data fixed, a later leave date never gives a larger
\* refund, and the refund never exceeds price / count(members present at
\* purchase).
C28_RefundNonIncreasingInLeaveDate ==
    RefundComputed =>
        LET i == call.arg.member
            k == call.arg.item
        IN  /\ call.ret = RefundIfLeftOn(i, k, store.members[i].leaveDate)
            /\ \A l1 \in StoreDates : \A l2 \in StoreDates :
                  (store.members[i].joiningDate <= l1 /\ l1 <= l2)
                      => RLeq(RefundIfLeftOn(i, k, l2), RefundIfLeftOn(i, k, l1))
            /\ RLeq(call.ret, EqualShare(k))

\* The first half alone, for leave dates after the purchase date only.
RefundNonIncreasingAfterPurchase ==
    RefundComputed =>
        \A l1 \in StoreDates : \A l2 \in StoreDates :
            (store.items[call.arg.item].purchaseDate < l1 /\ l1 <= l2
                /\ l2 < store.items[call.arg.item].purchaseDate
                        + (storeDepreciationDays(store.items[call.arg.item]) - 1) * ONE_DAY_MS)
            => RLeq(RefundIfLeftOn(call.arg.member, call.arg.item, l2),
                    RefundIfLeftOn(call.arg.member, call.arg.item, l1))

\* The second half alone.
RefundAtMostEqualShare ==
    RefundComputed => RLeq(call.ret, EqualShare(call.arg.item))


====
